---- MODULE Spec2Model ----
(***************************************************************************)
(* State-machine model of the thoughtful.ai support agent backend:         *)
(*   - ragService.js       the in-memory vector store, ingestion, search   *)
(*   - knowledgeService.js the single-flight initialization coordinator    *)
(*   - agentService.js     the predefined / RAG / OpenAI response router   *)
(*                                                                         *)
(* JavaScript runs one job at a time.  A step of the model is one job: the *)
(* synchronous code between two suspension points.  Promise reactions      *)
(* (microtasks) are queued in `microtasks` and drain before any new task   *)
(* (an incoming call, a collaborator's response, a timer) is taken.        *)
(***************************************************************************)
EXTENDS Integers, Sequences, FiniteSets, TLC

\* ----------------------------------------------------------------- bounds
NumCallers == 2        \* concurrent callers of initializeKnowledgeBase
MaxCalls == 2          \* initializeKnowledgeBase calls in one behaviour
MaxStatusCalls == 1    \* getKnowledgeBaseStatus calls in one behaviour

MaxQueries == 1        \* getAgentResponse calls in one behaviour
MaxSearches == 1       \* direct searchDocuments calls in one behaviour
MaxRequests == 1       \* POST /api/chat requests in one behaviour

Callers == 1..NumCallers
Runs == 1..MaxCalls

\* getKnowledgeBaseStatus writes no state: one polling client shows every
\* status a reader can be given.
Readers == {"monitor"}

\* getAgentResponse reads the shared state and writes none of it, so one
\* client at a time shows every effect the store can have on a query.
Clients == {"chat"}

\* Inputs of getAgentResponse.
UserQueries ==
  { "Tell me about Thoughtful AI agents",   \* catalog match above 0.6
    "What is EVA?",                         \* keyword match boosted to 0.5
    "prior authorization approval" }        \* no catalog match

Histories == { <<>>, << [role |-> "user", content |-> "Hello"] >> }

\* What the completion collaborator can answer.
CompletionTexts == { "Mocked OpenAI response" }

\* ------------------------------------------------------- null encodings
\* JavaScript null, per type (TLC cannot compare a string with a number).
NoPromise == 0         \* initializationPromise === null
NoTime == 0            \* lastUpdated === null
NoError == "null"      \* initializationError === null

NoContentError == "No content was scraped from thoughtful.ai"

\* ------------------------------------------------------------ the corpus
\* Texts are strings; s[i] is written SubSeq(s, i, i).
PagePA ==
  [pageName |-> "Prior Authorization",
   url |-> "https://www.thoughtful.ai/prior-authorization",
   content |-> << "Prior Authorization automates healthcare approval workflows.",
                  "Too short." >>]

PageHome ==
  [pageName |-> "Home",
   url |-> "https://www.thoughtful.ai/",
   content |-> << "Thoughtful AI builds automation agents for revenue cycle teams." >>]

\* A page none of whose content items is long enough to be indexed.
PageEmpty ==
  [pageName |-> "Empty",
   url |-> "https://test.com",
   content |-> << "Hi", "Ok", "Yes" >>]

\* What scrapeAllPages can resolve to: the pages that loaded, in the order of
\* PAGES_TO_SCRAPE; a page whose fetch failed is skipped.
ScrapeOutcomes == { <<>>, <<PagePA>>, <<PagePA, PageHome>> }

\* Embedding vectors the collaborator can return (one fixed dimension), for
\* the chunks of the corpus and for the user queries.
ChunkVectors == { <<1, 0>>, <<0, 1>> }
QueryVectors == { <<1, 0>>, <<2, 1>> }

\* ---------------------------------------------------------------- strings
\* Strings are TLA+ strings; Char(s, i) is s[i - 1] of the JavaScript string.
Char(s, i) == SubSeq(s, i, i)
Chars(s) == { Char(s, i) : i \in 1..Len(s) }

\* \s of a regular expression, and String.prototype.trim's whitespace.
SpaceChars == {" ", "\t", "\n"}
IsSpaceAt(s, i) == Char(s, i) \in SpaceChars

\* String.prototype.trim.
RECURSIVE trimStart(_)
trimStart(str) ==
  IF Len(str) > 0 /\ Char(str, 1) \in SpaceChars
  THEN trimStart(SubSeq(str, 2, Len(str)))
  ELSE str

RECURSIVE trimEnd(_)
trimEnd(str) ==
  IF Len(str) > 0 /\ Char(str, Len(str)) \in SpaceChars
  THEN trimEnd(SubSeq(str, 1, Len(str) - 1))
  ELSE str

trim(str) == trimEnd(trimStart(str))

\* ------------------------------------------------------------- ragService
EmptyStore ==
  [documents |-> <<>>, embeddings |-> <<>>, initialized |-> FALSE,
   lastUpdated |-> NoTime]

\* chunkText, line 81: text.split(/(?<=[.!?])\s+/).  A separator is a
\* maximal run of whitespace that follows '.', '!' or '?'.
SentenceEnds == {".", "!", "?"}

SeparatorStarts(text) ==
  { i \in 2..Len(text) :
      IsSpaceAt(text, i) /\ Char(text, i - 1) \in SentenceEnds }

RunEnd(text, i) ==
  CHOOSE j \in i..Len(text) :
    /\ \A k \in i..j : IsSpaceAt(text, k)
    /\ j = Len(text) \/ ~IsSpaceAt(text, j + 1)

SplitSentences(text) ==
  LET seps == SeparatorStarts(text)
      nth(k) == CHOOSE i \in seps : Cardinality({ j \in seps : j < i }) = k - 1
      n == Cardinality(seps)
      first(k) == IF k = 1 THEN 1 ELSE RunEnd(text, nth(k - 1)) + 1
      last(k) == IF k = n + 1 THEN Len(text) ELSE nth(k) - 1
  IN [k \in 1..(n + 1) |-> SubSeq(text, first(k), last(k))]

FirstWords(currentChunk, count) ==
  LET spaces == { i \in 1..Len(currentChunk) : Char(currentChunk, i) = " " }
  IN IF count = 0 \/ Cardinality(spaces) < count THEN SubSeq(currentChunk, 1, 1)
     ELSE LET to == CHOOSE i \in spaces :
                      Cardinality({ j \in spaces : j < i }) = count - 1
          IN SubSeq(currentChunk, 1, to - 1)

\* chunkText, lines 89-90: currentChunk.split(' ').slice(-count).join(' ').
\* slice(-0) is slice(0): with count = 0 every word is kept.
LastWords(currentChunk, count) ==
  LET spaces == { i \in 1..Len(currentChunk) : Char(currentChunk, i) = " " }
  IN IF count = 0 \/ Cardinality(spaces) < count THEN currentChunk
     ELSE LET from == CHOOSE i \in spaces :
                        Cardinality({ j \in spaces : j > i }) = count - 1
          IN SubSeq(currentChunk, from + 1, Len(currentChunk))

\* chunkText, lines 82-83: no chunk yet, and an empty buffer.
NoChunks == [chunks |-> <<>>, currentChunk |-> ""]

ChunkStepTruncating(state, sentence, maxChunkSize, overlap) ==
  IF Len(state.currentChunk \o sentence) > maxChunkSize
     /\ Len(state.currentChunk) > 0
  THEN [chunks |-> Append(state.chunks, trim(state.currentChunk)),
        currentChunk |-> SubSeq(sentence, 1, maxChunkSize)]
  ELSE [state EXCEPT !.currentChunk =
          @ \o (IF @ # "" THEN " " ELSE "") \o sentence]

\* chunkText, lines 85-94: one iteration of the loop over the sentences.
ChunkStep(state, sentence, maxChunkSize, overlap) ==
  IF Len(state.currentChunk \o sentence) > maxChunkSize
     /\ Len(state.currentChunk) > 0
  THEN [chunks |-> Append(state.chunks, trim(state.currentChunk)),
        currentChunk |->
          LastWords(state.currentChunk, overlap \div 10) \o " " \o sentence]
  ELSE [state EXCEPT !.currentChunk =
          @ \o (IF @ # "" THEN " " ELSE "") \o sentence]

RECURSIVE ChunkLoop(_, _, _, _)
ChunkLoop(state, sentences, maxChunkSize, overlap) ==
  IF sentences = <<>> THEN state
  ELSE ChunkLoop(ChunkStep(state, Head(sentences), maxChunkSize, overlap),
                 Tail(sentences), maxChunkSize, overlap)

FlushBlank(state) == Append(state.chunks, trim(state.currentChunk))

\* chunkText, lines 96-100: the last buffer is pushed unless it is blank.
Flush(state) ==
  IF trim(state.currentChunk) # ""
  THEN Append(state.chunks, trim(state.currentChunk))
  ELSE state.chunks

\* chunkText, lines 80-101.
chunkText(text, maxChunkSize, overlap) ==
  Flush(ChunkLoop(NoChunks, SplitSentences(text), maxChunkSize, overlap))

\* chunkText as ingestContent calls it, with the default arguments.
DefaultMaxChunkSize == 500
DefaultOverlap == 50
MinChunkLength == 20

chunkTextDefault(text) == chunkText(text, DefaultMaxChunkSize, DefaultOverlap)

RECURSIVE ChunkJobsOfItems(_, _)
ChunkJobsOfItems(page, items) ==
  IF items = <<>> THEN <<>>
  ELSE LET chunks == chunkTextDefault(Head(items))
           kept == SelectSeq(chunks, LAMBDA ch : ~(Len(ch) < MinChunkLength))
           jobs == [i \in 1..Len(kept) |->
                      [pageName |-> page.pageName, url |-> page.url,
                       text |-> kept[i]]]
       IN jobs \o ChunkJobsOfItems(page, Tail(items))

\* The chunks ingestContent asks an embedding for, in loop order.
RECURSIVE ChunkJobs(_)
ChunkJobs(pages) ==
  IF pages = <<>> THEN <<>>
  ELSE ChunkJobsOfItems(Head(pages), Head(pages).content)
         \o ChunkJobs(Tail(pages))

isInitialized(store) == store.initialized

getStatus(store) ==
  [initialized |-> store.initialized,
   documentCount |-> Len(store.documents),
   lastUpdated |-> store.lastUpdated]

clearVectorStore == EmptyStore


\* cosineSimilarity, lines 53-71.  A score is the real dot / sqrt(norm2),
\* kept exact as the pair (dot, norm2) with norm2 = normA * normB > 0.
Score(dot, norm2) == [threw |-> FALSE, dot |-> dot, norm2 |-> norm2]
LengthMismatch == [threw |-> TRUE]

RECURSIVE DotProduct(_, _)
DotProduct(a, b) ==
  IF a = <<>> THEN 0 ELSE Head(a) * Head(b) + DotProduct(Tail(a), Tail(b))

cosineSimilarityByFirstNorm(vecA, vecB) ==
  IF Len(vecA) # Len(vecB) THEN LengthMismatch
  ELSE LET dotProduct == DotProduct(vecA, vecB)
           normA == DotProduct(vecA, vecA)
       IN IF normA = 0 THEN Score(0, 1)
          ELSE Score(dotProduct, normA * normA)

cosineSimilarity(vecA, vecB) ==
  IF Len(vecA) # Len(vecB) THEN LengthMismatch
  ELSE LET dotProduct == DotProduct(vecA, vecB)
           normA == DotProduct(vecA, vecA)
           normB == DotProduct(vecB, vecB)
       IN IF normA = 0 \/ normB = 0 THEN Score(0, 1)
          ELSE Score(dotProduct, normA * normB)

\* Order of scores: x |-> sign(x) * x * x is increasing.
Sign(n) == IF n > 0 THEN 1 ELSE IF n < 0 THEN -1 ELSE 0
ScoreGT(a, b) ==
  Sign(a.dot) * a.dot * a.dot * b.norm2 > Sign(b.dot) * b.dot * b.dot * a.norm2
ScoreEq(a, b) == ~ScoreGT(a, b) /\ ~ScoreGT(b, a)

\* searchDocuments, line 193: score > 0.3, the minimum relevance threshold.
AboveRelevanceThreshold(score) ==
  score.dot > 0 /\ 100 * score.dot * score.dot > 9 * score.norm2

\* Variant: the guard of line 175 is missing.
NothingToSearchUnchecked(store) == FALSE

\* searchDocuments, line 175.
NothingToSearch(store) == ~store.initialized \/ Len(store.documents) = 0

\* Array.prototype.sort with (a, b) => b.score - a.score: stable, descending.
RECURSIVE InsertByScore(_, _)
InsertByScore(sorted, doc) ==
  IF sorted = <<>> THEN <<doc>>
  ELSE IF ScoreGT(doc.score, Head(sorted).score)
       THEN <<doc>> \o sorted
       ELSE <<Head(sorted)>> \o InsertByScore(Tail(sorted), doc)

RECURSIVE SortByScore(_)
SortByScore(docs) ==
  IF docs = <<>> THEN <<>>
  ELSE InsertByScore(SortByScore(SubSeq(docs, 1, Len(docs) - 1)),
                     docs[Len(docs)])

TopK == 5

\* Callers of searchDocuments and the limits they pass: one below the size
\* of the corpus, and the default.
Searchers == {"search"}
TopKs == {1, TopK}

\* searchDocuments, lines 181-195, from the point where the query embedding
\* has arrived: it reads the snapshot that is live then.
ScoredDocuments(store, queryEmbedding) ==
  [i \in 1..Len(store.documents) |->
     [id |-> store.documents[i].id, text |-> store.documents[i].text,
      metadata |-> store.documents[i].metadata,
      score |-> cosineSimilarity(queryEmbedding, store.embeddings[i])]]

SearchThrows(store, queryEmbedding) ==
  \E i \in 1..Len(store.documents) :
     cosineSimilarity(queryEmbedding, store.embeddings[i]).threw

\* Variant: slice(0, topK) is missing.
searchResultsWithoutLimit(store, queryEmbedding, topK) ==
  SelectSeq(SortByScore(ScoredDocuments(store, queryEmbedding)),
            LAMBDA doc : AboveRelevanceThreshold(doc.score))

searchResults(store, queryEmbedding, topK) ==
  LET sorted == SortByScore(ScoredDocuments(store, queryEmbedding))
      top == SubSeq(sorted, 1, IF Len(sorted) < topK THEN Len(sorted) ELSE topK)
  IN SelectSeq(top, LAMBDA doc : AboveRelevanceThreshold(doc.score))

\* buildContext, lines 207-217.
RECURSIVE JoinContext(_)
JoinContext(parts) ==
  IF parts = <<>> THEN ""
  ELSE IF Len(parts) = 1 THEN Head(parts)
  ELSE Head(parts) \o "\n\n---\n\n" \o JoinContext(Tail(parts))

buildContext(results) ==
  JoinContext([i \in 1..Len(results) |->
                 "[Source: " \o results[i].metadata.pageName \o "]\n"
                   \o results[i].text])

\* getRelevantContext, lines 224-237, on the results of searchDocuments.
RelevantContext(results) ==
  [context |-> buildContext(results),
   sources |-> [i \in 1..Len(results) |->
                  [pageName |-> results[i].metadata.pageName,
                   url |-> results[i].metadata.url,
                   relevanceScore |-> results[i].score]],
   hasContext |-> Len(results) > 0]

\* ----------------------------------------------------------- agentService

UpperCase == "ABCDEFGHIJKLMNOPQRSTUVWXYZ"
LowerCase == "abcdefghijklmnopqrstuvwxyz"
Digits == "0123456789"
WordChars == Chars(UpperCase) \cup Chars(LowerCase) \cup Chars(Digits) \cup {"_"}

LowerChar(c) ==
  IF c \in Chars(UpperCase)
  THEN Char(LowerCase, CHOOSE i \in 1..Len(UpperCase) : Char(UpperCase, i) = c)
  ELSE c

\* String.prototype.toLowerCase, character by character (the string is
\* halved so that the depth of the recursion stays small).
RECURSIVE toLowerCase(_)
toLowerCase(s) ==
  IF Len(s) = 0 THEN ""
  ELSE IF Len(s) = 1 THEN LowerChar(s)
  ELSE LET half == Len(s) \div 2
       IN toLowerCase(SubSeq(s, 1, half))
            \o toLowerCase(SubSeq(s, half + 1, Len(s)))

\* replace(/[^\w\s]/g, '')
RECURSIVE StripPunctuation(_)
StripPunctuation(s) ==
  IF Len(s) = 0 THEN ""
  ELSE IF Len(s) = 1
       THEN (IF s \in WordChars \cup SpaceChars THEN s ELSE "")
  ELSE LET half == Len(s) \div 2
       IN StripPunctuation(SubSeq(s, 1, half))
            \o StripPunctuation(SubSeq(s, half + 1, Len(s)))

\* The pieces of two adjacent parts of a string, put together: the piece that
\* ends the left part and the piece that starts the right part are one piece,
\* and no piece at all where the parts meet inside a run of whitespace.
JoinPieces(left, right, insideRun) ==
  IF insideRun
  THEN SubSeq(left, 1, Len(left) - 1) \o Tail(right)
  ELSE SubSeq(left, 1, Len(left) - 1)
         \o << left[Len(left)] \o Head(right) >> \o Tail(right)

\* split(/\s+/): the pieces between maximal runs of whitespace; a leading or
\* trailing run leaves an empty piece at that end.
\* The string is halved so that the depth of the recursion stays small.
RECURSIVE SplitOnWhitespace(_)
SplitOnWhitespace(s) ==
  IF Len(s) = 0 THEN <<"">>
  ELSE IF Len(s) = 1 THEN (IF s \in SpaceChars THEN <<"", "">> ELSE <<s>>)
  ELSE LET half == Len(s) \div 2
       IN JoinPieces(SplitOnWhitespace(SubSeq(s, 1, half)),
                     SplitOnWhitespace(SubSeq(s, half + 1, Len(s))),
                     IsSpaceAt(s, half) /\ IsSpaceAt(s, half + 1))

Range(seq) == { seq[i] : i \in 1..Len(seq) }

\* calculateSimilarity, line 12: the words a string is compared by.
MinWordLength == 2
normalize(str) ==
  SelectSeq(SplitOnWhitespace(StripPunctuation(toLowerCase(str))),
            LAMBDA word : Len(word) > MinWordLength)

\* Scores are exact fractions num/den (den > 0).
Frac(n, d) == [num |-> n, den |-> d]
FracGT(a, b) == a.num * b.den > b.num * a.den
FracGE(a, b) == a.num * b.den >= b.num * a.den
FracEq(a, b) == a.num * b.den = b.num * a.den
FracMax(a, b) == IF FracGT(b, a) THEN b ELSE a

calculateSimilarityOverFirst(str1, str2) ==
  LET words1 == Range(normalize(str1))
      words2 == Range(normalize(str2))
      intersection == Cardinality(words1 \cap words2)
  IN IF words1 = {} \/ words2 = {} THEN Frac(0, 1)
     ELSE Frac(intersection, Cardinality(words1))

\* calculateSimilarity, lines 11-27: Jaccard index of the two word sets.
calculateSimilarity(str1, str2) ==
  LET words1 == Range(normalize(str1))
      words2 == Range(normalize(str2))
      intersection == Cardinality(words1 \cap words2)
      union == Cardinality(words1) + Cardinality(words2) - intersection
  IN IF words1 = {} \/ words2 = {} THEN Frac(0, 1)
     ELSE Frac(intersection, union)

\* data/predefinedResponses.js: the catalog of question/answer pairs.
predefinedResponses ==
  << [question |-> "What does the eligibility verification agent (EVA) do?",
      answer |-> "EVA automates the process of verifying a patient's eligibility and benefits information in real-time, eliminating manual data entry errors and reducing claim rejections."],
     [question |-> "What does the claims processing agent (CAM) do?",
      answer |-> "CAM streamlines the submission and management of claims, improving accuracy, reducing manual intervention, and accelerating reimbursements."],
     [question |-> "How does the payment posting agent (PHIL) work?",
      answer |-> "PHIL automates the posting of payments to patient accounts, ensuring fast, accurate reconciliation of payments and reducing administrative burden."],
     [question |-> "Tell me about Thoughtful AI's Agents.",
      answer |-> "Thoughtful AI provides a suite of AI-powered automation agents designed to streamline healthcare processes. These include Eligibility Verification (EVA), Claims Processing (CAM), and Payment Posting (PHIL), among others."],
     [question |-> "What are the benefits of using Thoughtful AI's agents?",
      answer |-> "Using Thoughtful AI's Agents can significantly reduce administrative costs, improve operational efficiency, and reduce errors in critical processes like claims management and payment posting."] >>

\* findBestMatch, lines 41-55: keyword -> index of the catalog entry (0-based
\* in the source), in the order Object.entries enumerates them.
keywords ==
  << <<"eva", 0>>, <<"eligibility", 0>>, <<"verification", 0>>,
     <<"cam", 1>>, <<"claims", 1>>, <<"processing", 1>>,
     <<"phil", 2>>, <<"payment", 2>>, <<"posting", 2>>,
     <<"agents", 3>>, <<"thoughtful", 3>>,
     <<"benefits", 4>>, <<"advantages", 4>> >>

\* String.prototype.includes
includes(s, sub) ==
  \E i \in 1..(Len(s) - Len(sub) + 1) : SubSeq(s, i, i + Len(sub) - 1) = sub

SIMILARITY_THRESHOLD == Frac(3, 10)
KeywordBoost == Frac(1, 2)

NoQuestion == ""       \* matchedQuestion === null
NoMatch == [found |-> FALSE, answer |-> "", matchedQuestion |-> NoQuestion,
            confidence |-> Frac(0, 1)]

Matched(qa, confidence) ==
  [found |-> TRUE, answer |-> qa.answer, matchedQuestion |-> qa.question,
   confidence |-> confidence]

\* The running pair (bestMatch, highestScore) of findBestMatch.
NoBest == [bestMatch |-> NoMatch, highestScore |-> Frac(0, 1)]

\* findBestMatch, lines 60-73: one iteration of the keyword loop.
KeywordStep(best, userQuery, entry) ==
  IF includes(toLowerCase(userQuery), entry[1])
  THEN LET question == predefinedResponses[entry[2] + 1]
           similarity == calculateSimilarity(userQuery, question.question)
       IN IF FracGT(similarity, best.highestScore)
          THEN LET boosted == FracMax(similarity, KeywordBoost)
               IN [bestMatch |-> Matched(question, boosted),
                   highestScore |-> boosted]
          ELSE best
  ELSE best

ScanStepKeepsBoosted(best, userQuery, qa) ==
  LET similarity == calculateSimilarity(userQuery, qa.question)
  IN IF FracGT(similarity, best.highestScore) /\ ~best.bestMatch.found
     THEN [bestMatch |-> Matched(qa, similarity), highestScore |-> similarity]
     ELSE best

\* findBestMatch, lines 76-86: one iteration of the full scan.
ScanStep(best, userQuery, qa) ==
  LET similarity == calculateSimilarity(userQuery, qa.question)
  IN IF FracGT(similarity, best.highestScore)
     THEN [bestMatch |-> Matched(qa, similarity), highestScore |-> similarity]
     ELSE best

RECURSIVE KeywordPass(_, _, _)
KeywordPass(best, userQuery, entries) ==
  IF entries = <<>> THEN best
  ELSE KeywordPass(KeywordStep(best, userQuery, Head(entries)), userQuery,
                   Tail(entries))

RECURSIVE ScanPass(_, _, _)
ScanPass(best, userQuery, entries) ==
  IF entries = <<>> THEN best
  ELSE ScanPass(ScanStep(best, userQuery, Head(entries)), userQuery,
                Tail(entries))

findBestMatchStrictlyAbove(userQuery) ==
  LET afterKeywords == KeywordPass(NoBest, userQuery, keywords)
      best == ScanPass(afterKeywords, userQuery, predefinedResponses)
  IN IF FracGT(best.highestScore, SIMILARITY_THRESHOLD)
     THEN best.bestMatch
     ELSE NoMatch

\* findBestMatch, lines 34-93.
findBestMatch(userQuery) ==
  LET afterKeywords == KeywordPass(NoBest, userQuery, keywords)
      best == ScanPass(afterKeywords, userQuery, predefinedResponses)
  IN IF FracGE(best.highestScore, SIMILARITY_THRESHOLD)
     THEN best.bestMatch
     ELSE NoMatch

\* ------------------------------------------------------------------ state
VARIABLES
  vectorStore,            \* ragService: the live snapshot
  initializationPromise,  \* knowledgeService: run in flight, or NoPromise
  initializationError,    \* knowledgeService: last error message, or NoError
  runs,                   \* performInitialization activations, by run id
  numRuns,                \* activations started so far
  callers,                \* initializeKnowledgeBase activations, by caller
  numCalls,               \* initializeKnowledgeBase calls made so far
  microtasks,             \* promise reactions queued, oldest first
  clock,                  \* Date.now(), in ticks
  scrapeCalls,            \* calls of scrapeAllPages so far
  ingestCalls,            \* calls of ingestContent so far
  readers,                \* last getKnowledgeBaseStatus answer, by reader
  numStatusCalls,         \* getKnowledgeBaseStatus calls made so far
  queries,                \* getAgentResponse activations, by client
  numQueries,             \* getAgentResponse calls made so far
  searches,               \* direct searchDocuments activations, by searcher
  numSearches,            \* direct searchDocuments calls made so far
  requests,               \* POST /api/chat requests, by client
  numRequests,            \* POST /api/chat requests made so far
  call,                   \* a library function under test and its arguments
  result,                 \* what that call returned, or NoResult
  parser,                 \* extractTextFromHtml: the closure's variables
  app                     \* the chat UI: the App component's state

coordVars == << vectorStore, initializationPromise, initializationError, runs,
                numRuns, callers, numCalls, microtasks, clock, scrapeCalls,
                ingestCalls >>
readerVars == << readers, numStatusCalls, searches, numSearches >>
routerVars == << queries, numQueries, requests, numRequests >>
libVars == << call, result, parser >>
uiVars == << app >>
vars == << coordVars, readerVars, routerVars, libVars, uiVars >>

NoRun ==
  [pc |-> "unused", force |-> FALSE, initiator |-> 0, waiters |-> <<>>,
   priorStore |-> EmptyStore, pages |-> <<>>, jobs |-> <<>>, next |-> 1,
   documents |-> <<>>, embeddings |-> <<>>, totalChunks |-> 0]

IdleCaller == [pc |-> "idle", force |-> FALSE, run |-> 0,
               outcome |-> [settled |-> FALSE]]

NoStatus == [asked |-> FALSE]

\* A POST /api/chat request: its body, and the response if the handler has
\* sent one itself (status 0: the response follows getAgentResponse).
\* succeededBefore: an ingestion had succeeded when the request arrived.
NoRequest ==
  [pc |-> "idle", body |-> [message |-> [type |-> "undefined"],
                            conversationHistory |-> <<>>],
   status |-> 0, error |-> "", succeededBefore |-> FALSE]

IdleSearch ==
  [pc |-> "idle", topK |-> 0, embeddingCalls |-> 0, results |-> <<>>,
   called |-> EmptyStore, queryEmbedding |-> <<>>, searched |-> EmptyStore]

NoContext == [context |-> "", sources |-> <<>>, hasContext |-> FALSE]
NoResponse == [source |-> "none"]
IdleQuery ==
  [pc |-> "idle", userQuery |-> "", conversationHistory |-> <<>>,
   match |-> NoMatch, initialized |-> FALSE, tiers |-> <<>>,
   embeddingCalls |-> 0, completionCalls |-> <<>>, ragContext |-> NoContext,
   raised |-> <<>>, answeredBy |-> 0, response |-> NoResponse]

\* No library call under test, and no document being parsed.
NoCall == [fn |-> "none"]
NoResult == [returned |-> FALSE]
NoParser == [parsing |-> FALSE]
NoApp == [mounted |-> FALSE]

ServerInit ==
  /\ vectorStore = EmptyStore
  /\ initializationPromise = NoPromise
  /\ initializationError = NoError
  /\ runs = [r \in Runs |-> NoRun]
  /\ numRuns = 0
  /\ callers = [c \in Callers |-> IdleCaller]
  /\ numCalls = 0
  /\ microtasks = <<>>
  /\ clock = 1
  /\ scrapeCalls = 0
  /\ ingestCalls = 0
  /\ readers = [d \in Readers |-> NoStatus]
  /\ numStatusCalls = 0
  /\ queries = [cl \in Clients |-> IdleQuery]
  /\ numQueries = 0
  /\ searches = [s \in Searchers |-> IdleSearch]
  /\ numSearches = 0
  /\ requests = [cl \in Clients |-> NoRequest]
  /\ numRequests = 0

Init ==
  /\ ServerInit
  /\ call = NoCall
  /\ result = NoResult
  /\ parser = NoParser
  /\ app = NoApp

\* A new task is taken only when the microtask queue has drained.
TaskTurn == microtasks = <<>>

\* ------------------------------------------------------- knowledgeService
\* Variant: the early return of line 19 is missing.
NeverAlreadyInitialized(store, force) == FALSE

\* initializeKnowledgeBase, line 19: already initialized and not forcing.
AlreadyInitialized(store, force) == isInitialized(store) /\ ~force

\* Variant: the promise in flight is not looked at.
NeverInProgress(promise) == FALSE

\* initializeKnowledgeBase, line 29: an initialization is in progress.
InProgress(promise) == promise # NoPromise

\* Variant: a forced run does not clear the store.
StoreKeptAtStart(store, force) == store

\* performInitialization up to its first await: the optional clear, then the
\* call of scrapeAllPages.
StoreAfterStart(store, force) == IF force THEN clearVectorStore ELSE store

\* Variant: isInitializing is derived from the store, not from the handle.
getKnowledgeBaseStatusFromStore ==
  [initialized |-> getStatus(vectorStore).initialized,
   documentCount |-> getStatus(vectorStore).documentCount,
   lastUpdated |-> getStatus(vectorStore).lastUpdated,
   error |-> initializationError,
   isInitializing |-> ~getStatus(vectorStore).initialized]

\* getKnowledgeBaseStatus, lines 98-108.
getKnowledgeBaseStatus ==
  [initialized |-> getStatus(vectorStore).initialized,
   documentCount |-> getStatus(vectorStore).documentCount,
   lastUpdated |-> getStatus(vectorStore).lastUpdated,
   error |-> initializationError,
   isInitializing |-> initializationPromise # NoPromise]

\* initializeKnowledgeBase(force), first job: lines 17-38.
InitializeKnowledgeBase(c, force) ==
  /\ TaskTurn
  /\ callers[c].pc \in {"idle", "done"}
  /\ numCalls < MaxCalls
  /\ numCalls' = numCalls + 1
  /\ IF AlreadyInitialized(vectorStore, force)
     THEN \* return the current status
          /\ callers' = [callers EXCEPT ![c] =
               [pc |-> "done", force |-> force, run |-> 0,
                outcome |-> [settled |-> TRUE, ok |-> TRUE, fresh |-> FALSE,
                             status |-> getStatus(vectorStore)]]]
          /\ UNCHANGED << vectorStore, initializationPromise,
                          initializationError, runs, numRuns, microtasks,
                          clock, scrapeCalls, ingestCalls >>
     ELSE IF InProgress(initializationPromise)
     THEN \* return initializationPromise
          /\ callers' = [callers EXCEPT ![c] =
               [pc |-> "attached", force |-> force,
                run |-> initializationPromise,
                outcome |-> [settled |-> FALSE]]]
          /\ runs' = [runs EXCEPT ![initializationPromise].waiters =
                         Append(@, c)]
          /\ UNCHANGED << vectorStore, initializationPromise,
                          initializationError, numRuns, microtasks, clock,
                          scrapeCalls, ingestCalls >>
     ELSE \* initializationPromise = performInitialization(force); await it
          /\ numRuns' = numRuns + 1
          /\ initializationPromise' = numRuns + 1
          /\ vectorStore' = StoreAfterStart(vectorStore, force)
          /\ scrapeCalls' = scrapeCalls + 1
          /\ runs' = [runs EXCEPT ![numRuns + 1] =
               [NoRun EXCEPT !.pc = "scraping", !.force = force,
                             !.initiator = c, !.waiters = <<c>>,
                             !.priorStore = vectorStore]]
          /\ callers' = [callers EXCEPT ![c] =
               [pc |-> "awaiting", force |-> force, run |-> numRuns + 1,
                outcome |-> [settled |-> FALSE]]]
          /\ UNCHANGED << initializationError, microtasks, clock,
                          ingestCalls >>
  /\ UNCHANGED << readerVars, routerVars, libVars, uiVars >>


\* The reactions of the promise of run r, in registration order: the
\* initiator's await first, then the callers the promise was returned to.
Reactions(r, waiters, outcome) ==
  [i \in 1..Len(waiters) |->
     [caller |-> waiters[i], run |-> r, outcome |-> outcome]]

\* Variant: a build that produced no document leaves the store uninitialized.
NewSnapshotIfAny(documents, embeddings, now) ==
  [documents |-> documents, embeddings |-> embeddings,
   initialized |-> Len(documents) > 0, lastUpdated |-> now]

\* ingestContent, lines 152-165: the live snapshot is replaced as a whole and
\* the statistics are returned; performInitialization wraps them in its
\* result (lines 78-87; the duration is a wall-clock difference, left out).
NewSnapshot(documents, embeddings, now) ==
  [documents |-> documents, embeddings |-> embeddings, initialized |-> TRUE,
   lastUpdated |-> now]

PageNames(pages) == [i \in 1..Len(pages) |-> pages[i].pageName]

InitializationResult(pages, totalChunks, now) ==
  [settled |-> TRUE, ok |-> TRUE, fresh |-> TRUE,
   scraping |-> [pagesScraped |-> Len(pages), pages |-> PageNames(pages)],
   ingestion |-> [totalPages |-> Len(pages), totalChunks |-> totalChunks,
                  lastUpdated |-> now]]

InitializationFailure(message) ==
  [settled |-> TRUE, ok |-> FALSE, message |-> message]

\* A settled activation: its locals are gone, its outcome travels with the
\* reactions of its promise.
SettledRun(pc) == [NoRun EXCEPT !.pc = pc]

\* The end of ingestContent and of performInitialization for run r, whose
\* build-local collections are documents and embeddings.
CompleteIngestion(r, run, documents, embeddings, totalChunks) ==
  /\ vectorStore' = NewSnapshot(documents, embeddings, clock)
  /\ clock' = clock + 1
  /\ runs' = [runs EXCEPT ![r] = SettledRun("resolved")]
  /\ microtasks' = microtasks \o
       Reactions(r, run.waiters,
                 InitializationResult(run.pages, totalChunks, clock))

\* Variant: the loop writes what it has built so far into the live store.
AdvanceIngestionInPlace(r, run, documents, embeddings, totalChunks) ==
  IF run.next < Len(run.jobs)
  THEN /\ runs' = [runs EXCEPT ![r] =
            [run EXCEPT !.pc = "embedding", !.next = run.next + 1,
                        !.documents = documents, !.embeddings = embeddings,
                        !.totalChunks = totalChunks]]
       /\ vectorStore' = [vectorStore EXCEPT !.documents = documents,
                                             !.embeddings = embeddings]
       /\ UNCHANGED << clock, microtasks >>
  ELSE CompleteIngestion(r, run, documents, embeddings, totalChunks)

\* ingestContent, the loop moving on after job run.next: the next embedding
\* request is sent, or the loop ends.
AdvanceIngestion(r, run, documents, embeddings, totalChunks) ==
  IF run.next < Len(run.jobs)
  THEN /\ runs' = [runs EXCEPT ![r] =
            [run EXCEPT !.pc = "embedding", !.next = run.next + 1,
                        !.documents = documents, !.embeddings = embeddings,
                        !.totalChunks = totalChunks]]
       /\ UNCHANGED << vectorStore, clock, microtasks >>
  ELSE CompleteIngestion(r, run, documents, embeddings, totalChunks)

\* Variant: the emptiness check of line 67 is missing.
NothingScrapedUnchecked(pages) == FALSE

\* performInitialization, line 67: nothing was scraped.
NothingScraped(pages) == Len(pages) = 0

\* Variant: a run that fails puts back the store it started from.
ScrapeReturnsRestoring(r, pages) ==
  /\ TaskTurn
  /\ runs[r].pc = "scraping"
  /\ IF NothingScraped(pages)
     THEN /\ runs' = [runs EXCEPT ![r] = SettledRun("rejected")]
          /\ microtasks' = microtasks \o
               Reactions(r, runs[r].waiters,
                         InitializationFailure(NoContentError))
          /\ vectorStore' = runs[r].priorStore
          /\ UNCHANGED << clock, ingestCalls >>
     ELSE /\ ingestCalls' = ingestCalls + 1
          /\ LET run == [runs[r] EXCEPT !.pages = pages,
                                        !.jobs = ChunkJobs(pages), !.next = 0]
             IN AdvanceIngestion(r, run, <<>>, <<>>, 0)
  /\ UNCHANGED << initializationPromise, initializationError, numRuns,
                  callers, numCalls, scrapeCalls >>
  /\ UNCHANGED << readerVars, routerVars, libVars, uiVars >>

\* scrapeAllPages resolves with pages: performInitialization lines 65-72 and
\* ingestContent up to its first embedding request.
ScrapeReturns(r, pages) ==
  /\ TaskTurn
  /\ runs[r].pc = "scraping"
  /\ IF NothingScraped(pages)
     THEN /\ runs' = [runs EXCEPT ![r] = SettledRun("rejected")]
          /\ microtasks' = microtasks \o
               Reactions(r, runs[r].waiters,
                         InitializationFailure(NoContentError))
          /\ UNCHANGED << vectorStore, clock, ingestCalls >>
     ELSE /\ ingestCalls' = ingestCalls + 1
          /\ LET run == [runs[r] EXCEPT !.pages = pages,
                                        !.jobs = ChunkJobs(pages), !.next = 0]
             IN AdvanceIngestion(r, run, <<>>, <<>>, 0)
  /\ UNCHANGED << initializationPromise, initializationError, numRuns,
                  callers, numCalls, scrapeCalls >>
  /\ UNCHANGED << readerVars, routerVars, libVars, uiVars >>

\* ingestContent(scrapedPages) called on its own, as the tests of ragService
\* call it: lines 108-124, up to its first embedding request.  No caller of
\* initializeKnowledgeBase waits for it.
IngestInputs == { <<>>, <<PageEmpty>>, <<PagePA>> }

IngestContent(pages) ==
  /\ TaskTurn
  /\ numRuns < MaxCalls
  /\ numRuns' = numRuns + 1
  /\ ingestCalls' = ingestCalls + 1
  /\ LET r == numRuns + 1
         run == [NoRun EXCEPT !.pc = "embedding", !.pages = pages,
                              !.jobs = ChunkJobs(pages), !.next = 0]
     IN AdvanceIngestion(r, run, <<>>, <<>>, 0)
  /\ UNCHANGED << initializationPromise, initializationError, callers,
                  numCalls, scrapeCalls >>
  /\ UNCHANGED << readerVars, routerVars, libVars, uiVars >>

\* ingestContent, lines 127-135: the document stored for a chunk.
Document(job, totalChunks) ==
  [id |-> job.pageName \o "-" \o ToString(totalChunks),
   text |-> job.text,
   metadata |-> [pageName |-> job.pageName, url |-> job.url]]

\* generateEmbedding resolves with vector v: lines 125-141, up to the delay.
EmbeddingReturns(r, v) ==
  /\ TaskTurn
  /\ runs[r].pc = "embedding"
  /\ runs' = [runs EXCEPT ![r] =
       [@ EXCEPT !.pc = "delay",
                 !.documents = Append(@, Document(runs[r].jobs[runs[r].next],
                                                  runs[r].totalChunks)),
                 !.embeddings = Append(@, v),
                 !.totalChunks = @ + 1]]
  /\ UNCHANGED << vectorStore, initializationPromise, initializationError,
                  numRuns, callers, numCalls, microtasks, clock, scrapeCalls,
                  ingestCalls >>
  /\ UNCHANGED << readerVars, routerVars, libVars, uiVars >>

\* Variant: there is no try/catch in the loop, the failure ends the run.
EmbeddingFailureAborts(r) ==
  /\ TaskTurn
  /\ runs[r].pc = "embedding"
  /\ runs' = [runs EXCEPT ![r] = SettledRun("rejected")]
  /\ microtasks' = microtasks \o
       Reactions(r, runs[r].waiters, InitializationFailure("embedding failed"))
  /\ UNCHANGED << vectorStore, clock, initializationPromise,
                  initializationError, numRuns, callers, numCalls,
                  scrapeCalls, ingestCalls >>
  /\ UNCHANGED << readerVars, routerVars, libVars, uiVars >>

\* Variant: the document is pushed before the embedding is awaited, and
\* stays when the embedding fails.
EmbeddingFailureKeepsChunk(r) ==
  /\ TaskTurn
  /\ runs[r].pc = "embedding"
  /\ AdvanceIngestion(r, runs[r],
                      Append(runs[r].documents,
                             Document(runs[r].jobs[runs[r].next],
                                      runs[r].totalChunks)),
                      runs[r].embeddings, runs[r].totalChunks)
  /\ UNCHANGED << initializationPromise, initializationError, numRuns,
                  callers, numCalls, scrapeCalls, ingestCalls >>
  /\ UNCHANGED << readerVars, routerVars, libVars, uiVars >>

\* generateEmbedding rejects: lines 142-144, the chunk is skipped.
EmbeddingFails(r) ==
  /\ TaskTurn
  /\ runs[r].pc = "embedding"
  /\ AdvanceIngestion(r, runs[r], runs[r].documents, runs[r].embeddings,
                      runs[r].totalChunks)
  /\ UNCHANGED << initializationPromise, initializationError, numRuns,
                  callers, numCalls, scrapeCalls, ingestCalls >>
  /\ UNCHANGED << readerVars, routerVars, libVars, uiVars >>

\* The 100 ms rate-limiting timer of line 141 fires.
DelayElapses(r) ==
  /\ TaskTurn
  /\ runs[r].pc = "delay"
  /\ AdvanceIngestion(r, runs[r], runs[r].documents, runs[r].embeddings,
                      runs[r].totalChunks)
  /\ UNCHANGED << initializationPromise, initializationError, numRuns,
                  callers, numCalls, scrapeCalls, ingestCalls >>
  /\ UNCHANGED << readerVars, routerVars, libVars, uiVars >>

\* Variant: the catch block does not record the error.
ErrorNeverRecorded(outcome) == NoError

\* Variant: a success does not reset the error (line 39 is missing).
ErrorKeptAfterSuccess(outcome) ==
  IF outcome.ok THEN initializationError ELSE outcome.message

\* initializeKnowledgeBase, lines 38-46: the initiator's await resumes.
ErrorAfter(outcome) == IF outcome.ok THEN NoError ELSE outcome.message

\* Variant: the finally block of line 45 is missing.
PromiseKeptAfterCompletion(promise) == promise

\* initializeKnowledgeBase, line 45.
PromiseAfterCompletion(promise) == NoPromise

InitiatorResumes(c) ==
  /\ microtasks # <<>>
  /\ Head(microtasks).caller = c
  /\ callers[c].pc = "awaiting"
  /\ LET outcome == Head(microtasks).outcome
     IN /\ initializationError' = ErrorAfter(outcome)
        /\ initializationPromise' = PromiseAfterCompletion(initializationPromise)
        /\ callers' = [callers EXCEPT ![c] =
             [@ EXCEPT !.pc = "done", !.outcome = outcome]]
  /\ microtasks' = Tail(microtasks)
  /\ UNCHANGED << vectorStore, runs, numRuns, numCalls, clock, scrapeCalls,
                  ingestCalls >>
  /\ UNCHANGED << readerVars, routerVars, libVars, uiVars >>

\* initializeKnowledgeBase, line 31: a caller that was handed the promise of
\* the run in flight settles as that promise did.
AttachedResumes(c) ==
  /\ microtasks # <<>>
  /\ Head(microtasks).caller = c
  /\ callers[c].pc = "attached"
  /\ callers' = [callers EXCEPT ![c] =
       [@ EXCEPT !.pc = "done",
                 !.outcome = Head(microtasks).outcome]]
  /\ microtasks' = Tail(microtasks)
  /\ UNCHANGED << vectorStore, initializationPromise, initializationError,
                  runs, numRuns, numCalls, clock, scrapeCalls, ingestCalls >>
  /\ UNCHANGED << readerVars, routerVars, libVars, uiVars >>

\* GET /api/knowledge/status: getKnowledgeBaseStatus, lines 98-108.
GetKnowledgeBaseStatus(d) ==
  /\ TaskTurn
  /\ numStatusCalls < MaxStatusCalls
  /\ numStatusCalls' = numStatusCalls + 1
  /\ readers' = [readers EXCEPT ![d] =
       [asked |-> TRUE, status |-> getKnowledgeBaseStatus]]
  /\ UNCHANGED << coordVars, libVars, uiVars, routerVars, searches, numSearches >>

\* searchDocuments(query, topK) called on its own, first job: lines 174-181,
\* up to the embedding request.  called is the store the call found.
SearchDocuments(s, topK) ==
  /\ TaskTurn
  /\ searches[s].pc \in {"idle", "done", "failed"}
  /\ numSearches < MaxSearches
  /\ numSearches' = numSearches + 1
  /\ searches' = [searches EXCEPT ![s] =
       IF NothingToSearch(vectorStore)
       THEN [IdleSearch EXCEPT !.pc = "done", !.topK = topK,
                               !.called = vectorStore]
       ELSE [IdleSearch EXCEPT !.pc = "embedding", !.topK = topK,
                               !.embeddingCalls = 1,
                               !.called = vectorStore]]
  /\ UNCHANGED << readers, numStatusCalls, coordVars, libVars, uiVars, routerVars >>

\* Variant: the search waits for the run in flight before it scores.
SearchEmbeddingReturnsAfterRun(s, v) ==
  /\ TaskTurn
  /\ initializationPromise = NoPromise
  /\ searches[s].pc = "embedding"
  /\ searches' = [searches EXCEPT ![s] =
       [@ EXCEPT !.pc = "done", !.queryEmbedding = v,
                 !.searched = vectorStore,
                 !.results = searchResults(vectorStore, v, searches[s].topK)]]
  /\ UNCHANGED << readers, numStatusCalls, numSearches, coordVars, libVars, uiVars,
                  routerVars >>

\* Variant: the documents are taken before the embedding is awaited (those
\* of the store at the call), the embeddings after it; a document without
\* an embedding makes cosineSimilarity throw.
SearchEmbeddingReturnsOnCalledDocuments(s, v) ==
  /\ TaskTurn
  /\ searches[s].pc = "embedding"
  /\ LET mixed == [searches[s].called EXCEPT
                     !.embeddings = vectorStore.embeddings]
     IN searches' = [searches EXCEPT ![s] =
          IF Len(mixed.embeddings) < Len(mixed.documents)
          THEN [@ EXCEPT !.pc = "failed", !.queryEmbedding = v,
                         !.searched = vectorStore]
          ELSE [@ EXCEPT !.pc = "done", !.queryEmbedding = v,
                         !.searched = vectorStore,
                         !.results = searchResults(mixed, v,
                                                   searches[s].topK)]]
  /\ UNCHANGED << readers, numStatusCalls, numSearches, coordVars, libVars,
                  uiVars, routerVars >>

\* generateEmbedding(query) resolves with v: lines 184-195 on the store that
\* is live now (searched).
SearchEmbeddingReturns(s, v) ==
  /\ TaskTurn
  /\ searches[s].pc = "embedding"
  /\ searches' = [searches EXCEPT ![s] =
       IF SearchThrows(vectorStore, v)
       THEN [@ EXCEPT !.pc = "failed", !.queryEmbedding = v,
                      !.searched = vectorStore]
       ELSE [@ EXCEPT !.pc = "done", !.queryEmbedding = v,
                      !.searched = vectorStore,
                      !.results = searchResults(vectorStore, v,
                                                 searches[s].topK)]]
  /\ UNCHANGED << readers, numStatusCalls, numSearches, coordVars, libVars, uiVars,
                  routerVars >>

\* generateEmbedding(query) rejects: searchDocuments rethrows (line 198).
SearchEmbeddingFails(s) ==
  /\ TaskTurn
  /\ searches[s].pc = "embedding"
  /\ searches' = [searches EXCEPT ![s] = [@ EXCEPT !.pc = "failed"]]
  /\ UNCHANGED << readers, numStatusCalls, numSearches, coordVars, libVars, uiVars,
                  routerVars >>

\* ----------------------------------------------------------- agentService
\* getOpenAIResponseWithRAG, lines 107-138: the request sent to the
\* completion collaborator (the static prompt is abridged).
StaticPrompt ==
  "You are a helpful customer support agent for Thoughtful AI. Be friendly, professional, and helpful."

\* Variant: the context block is appended whether or not there is context.
SystemPromptAlwaysWithContext(ragContext) ==
  StaticPrompt \o "\n\n--- RELEVANT INFORMATION FROM THOUGHTFUL.AI ---\n"
    \o ragContext.context \o "\n--- END OF RELEVANT INFORMATION ---"

SystemPrompt(ragContext) ==
  IF ragContext.hasContext
  THEN StaticPrompt \o "\n\n--- RELEVANT INFORMATION FROM THOUGHTFUL.AI ---\n"
         \o ragContext.context \o "\n--- END OF RELEVANT INFORMATION ---"
  ELSE StaticPrompt

CompletionRequest(userQuery, conversationHistory, ragContext) ==
  << [role |-> "system", content |-> SystemPrompt(ragContext)] >>
    \o conversationHistory
    \o << [role |-> "user", content |-> userQuery] >>

\* getAgentResponse, line 174: the predefined answer is good enough.
PredefinedThreshold == Frac(6, 10)
\* Variant: the comparison is made against 0.9.
ShortCircuitsAbovePointNine(match) ==
  match.found /\ FracGT(match.confidence, Frac(9, 10))

ShortCircuits(match) ==
  match.found /\ FracGT(match.confidence, PredefinedThreshold)

NoConfidence == [null |-> TRUE]

\* getAgentResponse, lines 175-180.
PredefinedResponse(match) ==
  [answer |-> match.answer, source |-> "predefined",
   confidence |-> match.confidence, matchedQuestion |-> match.matchedQuestion]

\* Math.max(...scores, 0)
RECURSIVE MaxScore(_)
MaxScore(sources) ==
  IF sources = <<>> THEN Score(0, 1)
  ELSE LET rest == MaxScore(Tail(sources))
       IN IF ScoreGT(rest, Head(sources).relevanceScore)
          THEN rest ELSE Head(sources).relevanceScore

\* getAgentResponse, lines 189-195.
RagSource(ragContext) == IF ragContext.hasContext THEN "rag" ELSE "openai"
\* Variant: the score of the last source is taken, not the highest.
RagConfidenceOfLastSource(ragContext) ==
  IF ragContext.hasContext
  THEN ragContext.sources[Len(ragContext.sources)].relevanceScore
  ELSE NoConfidence

RagConfidence(ragContext) ==
  IF ragContext.hasContext THEN MaxScore(ragContext.sources) ELSE NoConfidence

RagResponse(answer, ragContext) ==
  [answer |-> answer, source |-> RagSource(ragContext),
   confidence |-> RagConfidence(ragContext), matchedQuestion |-> NoQuestion,
   ragSources |-> ragContext.sources]

\* getAgentResponse, lines 204-209.
FallbackResponse(answer) ==
  [answer |-> answer, source |-> "openai", confidence |-> NoConfidence,
   matchedQuestion |-> NoQuestion]

\* Tier 2 sends its completion request, with the context it retrieved.
AskWithContext(q, ragContext) ==
  [q EXCEPT !.pc = "completion2", !.ragContext = ragContext,
            !.completionCalls =
               Append(@, CompletionRequest(q.userQuery, q.conversationHistory,
                                           ragContext))]

\* Tier 3, lines 201-202: the basic completion request, without context.
AskWithoutContext(q) ==
  [q EXCEPT !.pc = "completion3", !.tiers = Append(@, 3),
            !.completionCalls =
               Append(@, CompletionRequest(q.userQuery, q.conversationHistory,
                                           NoContext))]

\* findBestMatch on the inputs of the model, evaluated once.
BestMatch == [userQuery \in UserQueries |-> findBestMatch(userQuery)]

MatchFor(userQuery) ==
  IF userQuery \in UserQueries THEN BestMatch[userQuery]
  ELSE findBestMatch(userQuery)

\* Variant: there is no try/catch around tier 2, the error propagates.
PropagateRagError(q) == [q EXCEPT !.pc = "failed", !.raised = Append(@, 2)]

\* Variant: the catch sends the request of tier 2 once more before tier 3.
RetryRagCompletion(q) ==
  AskWithContext([q EXCEPT !.raised = Append(@, 2)], q.ragContext)

\* getAgentResponse, lines 196-202: an error of tier 2 is caught and logged,
\* and the basic request of tier 3 is sent.
CatchRagError(q) == AskWithoutContext([q EXCEPT !.raised = Append(@, 2)])

\* Variant: the return of line 189 is missing and tier 3 runs as well.
RagResponseFallsThrough(q, answer) ==
  AskWithoutContext([q EXCEPT !.answeredBy = 2,
                              !.response = RagResponse(answer, q.ragContext)])

\* getAgentResponse, lines 189-195: tier 2 returns its response.
ReturnRagResponse(q, answer) ==
  [q EXCEPT !.pc = "done", !.answeredBy = 2,
            !.response = RagResponse(answer, q.ragContext)]

\* getAgentResponse, lines 204-209: tier 3 returns its response.
ReturnFallbackResponse(q, answer) ==
  [q EXCEPT !.pc = "done", !.answeredBy = 3,
            !.response = FallbackResponse(answer)]

\* getAgentResponse(userQuery, conversationHistory), first job: lines 170-187
\* with searchDocuments up to its embedding request.
ResolveQuery(cl, userQuery, conversationHistory) ==
  /\ numQueries' = numQueries + 1
  /\ LET match == MatchFor(userQuery)
         q == [IdleQuery EXCEPT !.userQuery = userQuery,
                                !.conversationHistory = conversationHistory,
                                !.match = match,
                                !.initialized = isInitialized(vectorStore),
                                !.tiers = <<1>>]
     IN queries' = [queries EXCEPT ![cl] =
          IF ShortCircuits(match)
          THEN [q EXCEPT !.pc = "done", !.answeredBy = 1,
                         !.response = PredefinedResponse(match)]
          ELSE IF isInitialized(vectorStore)
          THEN IF NothingToSearch(vectorStore)
               THEN AskWithContext([q EXCEPT !.tiers = <<1, 2>>],
                                   RelevantContext(<<>>))
               ELSE [q EXCEPT !.pc = "embedding", !.tiers = <<1, 2>>,
                              !.embeddingCalls = 1]
          ELSE AskWithoutContext(q)]

\* getAgentResponse called on its own.
GetAgentResponse(cl, userQuery, conversationHistory) ==
  /\ TaskTurn
  /\ queries[cl].pc \in {"idle", "done", "failed"}
  /\ numQueries < MaxQueries
  /\ ResolveQuery(cl, userQuery, conversationHistory)
  /\ UNCHANGED << requests, numRequests, coordVars, libVars, uiVars, readerVars >>

\* generateEmbedding(query) resolves with v: searchDocuments lines 184-195,
\* getRelevantContext, and the completion request of line 187.
QueryEmbeddingReturns(cl, v) ==
  /\ TaskTurn
  /\ queries[cl].pc = "embedding"
  /\ queries' = [queries EXCEPT ![cl] =
       IF SearchThrows(vectorStore, v)
       THEN CatchRagError(@)
       ELSE AskWithContext(@, RelevantContext(searchResults(vectorStore, v, TopK)))]
  /\ UNCHANGED << numQueries, requests, numRequests, coordVars, libVars, uiVars,
                 readerVars >>

\* generateEmbedding(query) rejects: searchDocuments rethrows (line 198) and
\* getAgentResponse catches (line 196).
QueryEmbeddingFails(cl) ==
  /\ TaskTurn
  /\ queries[cl].pc = "embedding"
  /\ queries' = [queries EXCEPT ![cl] = CatchRagError(@)]
  /\ UNCHANGED << numQueries, requests, numRequests, coordVars, libVars, uiVars,
                 readerVars >>

\* The completion request of tier 2 resolves: lines 189-195.
RagCompletionReturns(cl, answer) ==
  /\ TaskTurn
  /\ queries[cl].pc = "completion2"
  /\ queries' = [queries EXCEPT ![cl] = ReturnRagResponse(@, answer)]
  /\ UNCHANGED << numQueries, requests, numRequests, coordVars, libVars, uiVars,
                 readerVars >>

\* The completion request of tier 2 rejects: caught at line 196.
RagCompletionFails(cl) ==
  /\ TaskTurn
  /\ queries[cl].pc = "completion2"
  /\ queries' = [queries EXCEPT ![cl] = CatchRagError(@)]
  /\ UNCHANGED << numQueries, requests, numRequests, coordVars, libVars, uiVars,
                 readerVars >>

\* The completion request of tier 3 resolves: lines 204-209.
FallbackCompletionReturns(cl, answer) ==
  /\ TaskTurn
  /\ queries[cl].pc = "completion3"
  /\ queries' = [queries EXCEPT ![cl] = ReturnFallbackResponse(@, answer)]
  /\ UNCHANGED << numQueries, requests, numRequests, coordVars, libVars, uiVars,
                 readerVars >>

\* The completion request of tier 3 rejects: getAgentResponse rejects.
FallbackCompletionFails(cl) ==
  /\ TaskTurn
  /\ queries[cl].pc = "completion3"
  /\ queries' = [queries EXCEPT ![cl] =
       [@ EXCEPT !.pc = "failed", !.raised = Append(@, 3)]]
  /\ UNCHANGED << numQueries, requests, numRequests, coordVars, libVars, uiVars,
                 readerVars >>

\* ------------------------------------------------------------------ index
\* The message field of a request body: absent, a number, or a string.
InvalidMessages ==
  { [type |-> "undefined"],
    [type |-> "number", value |-> 123],
    [type |-> "string", value |-> ""],
    [type |-> "string", value |-> "   "] }

ValidMessages ==
  { [type |-> "string", value |-> "What is EVA?"],
    [type |-> "string", value |-> "  Tell me about Thoughtful AI agents "] }

ChatBodies ==
  [message : InvalidMessages \cup ValidMessages, conversationHistory : Histories]


\* !message: undefined, the number 0 and the empty string are falsy.
Falsy(message) ==
  \/ message.type = "undefined"
  \/ message.type = "number" /\ message.value = 0
  \/ message.type = "string" /\ message.value = ""

\* Variant: the message is not trimmed before it is compared with ''.
InvalidMessageUntrimmed(message) ==
  Falsy(message) \/ message.type # "string"

\* POST /api/chat, line 66.
InvalidMessage(message) ==
  \/ Falsy(message)
  \/ message.type # "string"
  \/ trim(message.value) = ""

\* Variant: the readiness gate lets every request through.
isKnowledgeBaseReadyAlways(store) == TRUE

\* knowledgeService isKnowledgeBaseReady, lines 114-116.
isKnowledgeBaseReady(store) == isInitialized(store)

Answered(body, status, error) ==
  [pc |-> "answered", body |-> body, status |-> status, error |-> error,
   succeededBefore |-> \E r \in Runs : runs[r].pc = "resolved"]

\* POST /api/chat, lines 53-73: the handler up to its await.
PostChat(cl, body) ==
  /\ TaskTurn
  /\ numRequests < MaxRequests
  /\ requests[cl].pc # "pending" \/ queries[cl].pc \in {"done", "failed"}
  /\ numRequests' = numRequests + 1
  /\ IF ~isKnowledgeBaseReady(vectorStore)
     THEN /\ requests' = [requests EXCEPT ![cl] =
               Answered(body, 503, "Service Unavailable")]
          /\ UNCHANGED << queries, numQueries >>
     ELSE IF InvalidMessage(body.message)
     THEN /\ requests' = [requests EXCEPT ![cl] =
               Answered(body, 400, "Invalid input")]
          /\ UNCHANGED << queries, numQueries >>
     ELSE /\ requests' = [requests EXCEPT ![cl] =
               [Answered(body, 0, "") EXCEPT !.pc = "pending"]]
          /\ ResolveQuery(cl, trim(body.message.value),
                          body.conversationHistory)
  /\ UNCHANGED << coordVars, libVars, uiVars, readerVars >>

\* POST /api/chat, lines 75-86: the status of the response, once sent.
ChatStatus(cl) ==
  IF requests[cl].pc = "answered" THEN requests[cl].status
  ELSE IF requests[cl].pc = "pending" /\ queries[cl].pc = "done" THEN 200
  ELSE IF requests[cl].pc = "pending" /\ queries[cl].pc = "failed" THEN 500
  ELSE 0

\* --------------------------------------------------------- scraperService
\* extractTextFromHtml, lines 154-201.  htmlparser2 reports a document as
\* open-tag, text and close-tag events; it closes elements innermost first,
\* and closes those still open at the end of the input.
tagsToSkip == {"script", "style", "nav", "footer", "header", "noscript"}
contentTags == {"h1", "h2", "h3", "h4", "p", "li", "span", "div", "a"}
headingTags == {"h1", "h2", "h3", "h4"}
HeadingMinLength == 3
ContentMinLength == 10

\* The events of one document: at most MaxEvents open-tag and text events,
\* over element names of each kind and text runs shorter than 3, between 3
\* and 10, and longer than 10 characters once trimmed, or blank.
MaxEvents == 4
TagNames == {"header", "nav", "p", "h1", "b"}
TextRuns == {"ab", " Title ", "A long paragraph.", "  "}

\* The closure's variables, with the elements htmlparser2 holds open.  Kept
\* for the properties only: with each open element the text runs that came
\* directly inside it and outside every noise element (runs); whether
\* currentText holds text that came inside a noise element (noisy), and the
\* parts pushed with such text (leaked); the runs of closed elements that
\* were long enough for their element (owed) and too short (short).
StartParser ==
  [parsing |-> TRUE, textParts |-> <<>>, currentTag |-> "",
   skipContent |-> FALSE, currentText |-> "", stack |-> <<>>, events |-> 0,
   noisy |-> FALSE, leaked |-> {}, owed |-> {}, short |-> {}]

InsideNoise(stack) == \E i \in 1..Len(stack) : stack[i].name \in tagsToSkip

\* onopentag, lines 162-168.
OnOpenTag(name) ==
  /\ parser.parsing
  /\ parser.events < MaxEvents
  /\ parser' = [parser EXCEPT
       !.currentTag = name,
       !.skipContent = IF name \in tagsToSkip THEN TRUE ELSE @,
       !.currentText = "",
       !.noisy = FALSE,
       !.stack = Append(@, [name |-> name, runs |-> {}]),
       !.events = @ + 1]
  /\ UNCHANGED << call, result, coordVars, readerVars, routerVars, uiVars >>

\* ontext, line 170.
AcceptsText(skipContent, currentTag) ==
  ~skipContent /\ currentTag \in contentTags

\* ontext, lines 169-176.
OnText(text) ==
  /\ parser.parsing
  /\ parser.events < MaxEvents
  /\ LET trimmed == trim(text)
         accepted == AcceptsText(parser.skipContent, parser.currentTag)
                       /\ trimmed # ""
         top == Len(parser.stack)
         direct == /\ top > 0
                   /\ parser.stack[top].name \in contentTags
                   /\ ~InsideNoise(parser.stack)
                   /\ trimmed # ""
     IN parser' = [parser EXCEPT
          !.currentText = IF accepted THEN @ \o trimmed \o " " ELSE @,
          !.noisy = @ \/ (accepted /\ InsideNoise(parser.stack)),
          !.stack = IF direct
                    THEN [@ EXCEPT ![top].runs = @ \cup {trimmed}]
                    ELSE @,
          !.events = @ + 1]
  /\ UNCHANGED << call, result, coordVars, readerVars, routerVars, uiVars >>

\* onclosetag, line 186.
MinLength(tag) ==
  IF tag \in headingTags THEN HeadingMinLength ELSE ContentMinLength

\* onclosetag, lines 177-193, for the innermost open element.
OnCloseTag ==
  /\ parser.parsing
  /\ parser.stack # <<>>
  /\ LET top == parser.stack[Len(parser.stack)]
         tag == top.name
         trimmedText == trim(parser.currentText)
         pushed == trimmedText # "" /\ Len(trimmedText) >= MinLength(tag)
         longEnough == { t \in top.runs : Len(t) >= MinLength(tag) }
     IN parser' = [parser EXCEPT
          !.skipContent = IF tag \in tagsToSkip THEN FALSE ELSE @,
          !.textParts = IF pushed THEN Append(@, trimmedText) ELSE @,
          !.currentText = "",
          !.currentTag = "",
          !.noisy = FALSE,
          !.leaked = IF pushed /\ parser.noisy
                     THEN @ \cup {trimmedText} ELSE @,
          !.owed = @ \cup longEnough,
          !.short = @ \cup (top.runs \ longEnough),
          !.stack = SubSeq(@, 1, Len(@) - 1)]
  /\ UNCHANGED << call, result, coordVars, readerVars, routerVars, uiVars >>

\* [...new Set(textParts)]: first occurrences, in order.
RECURSIVE Unique(_)
Unique(parts) ==
  IF parts = <<>> THEN <<>>
  ELSE LET front == SubSeq(parts, 1, Len(parts) - 1)
           last == parts[Len(parts)]
       IN IF \E i \in 1..Len(front) : front[i] = last
          THEN Unique(front)
          ELSE Append(Unique(front), last)

\* join('\n\n')
RECURSIVE JoinParts(_)
JoinParts(parts) ==
  IF parts = <<>> THEN ""
  ELSE IF Len(parts) = 1 THEN parts[1]
  ELSE parts[1] \o "\n\n" \o JoinParts(Tail(parts))

\* extractTextFromHtml, lines 196-201: after parser.end(), every element is
\* closed and the parts are joined.
ExtractReturns ==
  /\ parser.parsing
  /\ parser.stack = <<>>
  /\ parser' = [parser EXCEPT !.parsing = FALSE]
  /\ result' = [returned |-> TRUE,
                value |-> JoinParts(Unique(parser.textParts))]
  /\ UNCHANGED << call, coordVars, readerVars, routerVars, uiVars >>

\* parseContent, line 212: content.split('\n\n'), the pieces between the
\* occurrences of two line breaks, found from the left.
BlankLineAt(content, i) ==
  i < Len(content) /\ SubSeq(content, i, i + 1) = "\n\n"

RECURSIVE SplitOnBlankLine(_)
SplitOnBlankLine(content) ==
  IF \E i \in 1..Len(content) : BlankLineAt(content, i)
  THEN LET first == CHOOSE i \in 1..Len(content) :
                      /\ BlankLineAt(content, i)
                      /\ \A j \in 1..(i - 1) : ~BlankLineAt(content, j)
       IN << SubSeq(content, 1, first - 1) >>
            \o SplitOnBlankLine(SubSeq(content, first + 2, Len(content)))
  ELSE << content >>

\* parseContent, line 212: chunk => chunk.trim().length > 20.
PieceLength == 20
Kept(chunk) == Len(trim(chunk)) > PieceLength

\* parseContent, lines 210-221.
parseContent(content, pageName, url, now) ==
  [pageName |-> pageName, url |-> url, scrapedAt |-> now,
   content |-> SelectSeq(SplitOnBlankLine(content), Kept),
   fullText |-> content]

\* Contents parseContent is called with: up to MaxPieces pieces with two
\* line breaks between them; pieces of 5, 19, 20 and 21 characters, one of
\* 21 characters of which 17 are left once trimmed, one that starts with a
\* line break, and the empty piece.
MaxPieces == 3
Pieces ==
  { "Short",
    "Nineteen characters",
    "Exactly twenty chars",
    "Twenty-one characters",
    "  cut to 17 letters  ",
    "\nA piece after three line breaks",
    "" }

RECURSIVE Contents(_)
Contents(n) ==
  IF n = 1 THEN Pieces
  ELSE Contents(n - 1)
         \cup { c \o "\n\n" \o piece : c \in Contents(n - 1), piece \in Pieces }

ParseCalls ==
  { [fn |-> "parseContent", content |-> c, pageName |-> "Home",
     url |-> "https://www.thoughtful.ai/", now |-> 1] :
      c \in Contents(MaxPieces) }

ParseContent ==
  /\ call.fn = "parseContent"
  /\ ~result.returned
  /\ result' = [returned |-> TRUE,
                value |-> parseContent(call.content, call.pageName,
                                       call.url, call.now)]
  /\ UNCHANGED << call, parser, coordVars, readerVars, routerVars, uiVars >>

\* ------------------------------------------------------------ the chat UI
\* App, lines 14-115.  React runs an event handler to its end (for
\* sendMessage: to its first await) and then renders; the handlers of a
\* render read the state that render was made with (rendered).  Message ids
\* (Date.now()) are left out.
SAMPLE_QUESTIONS ==
  << "What does EVA do?", "Tell me about CAM", "How does PHIL work?",
     "What are the benefits?" >>

Greeting ==
  [role |-> "assistant", content |-> "Hello!", source |-> "system"]

\* App, lines 15-25: useState.
InitialState ==
  [messages |-> << Greeting >>, input |-> "", isLoading |-> FALSE,
   error |-> NoError]

\* The component once mounted; sends holds the activations of sendMessage.
MountedApp ==
  [mounted |-> TRUE, state |-> InitialState, rendered |-> InitialState,
   sends |-> <<>>]

\* What the user types, and what the server answers.
MaxSends == 2
Typed == {" ", "Hi "}
Replies ==
  { [success |-> TRUE, answer |-> "Answer", source |-> "predefined"],
    [success |-> FALSE, message |-> "Failed"] }

NoRender(a) == a

\* React commits the state: the next handlers close over it.
Render(a) == [a EXCEPT !.rendered = a.state]

InFlight(a) == { i \in 1..Len(a.sends) : a.sends[i].pc # "done" }

\* Lines 240-247: the input's onChange; a disabled input takes no typing.
OnChange(text) ==
  /\ app.mounted
  /\ ~app.rendered.isLoading
  /\ app' = Render([app EXCEPT !.state.input = text])
  /\ UNCHANGED << coordVars, readerVars, routerVars, libVars >>

\* sendMessage, line 43: isLoading, as the handler's render saw it.
IsLoading(rendered) == rendered.isLoading

\* sendMessage, lines 58-60.
ConversationHistory(messages) ==
  LET kept == SelectSeq(messages, LAMBDA m : m.role # "system")
  IN [i \in 1..Len(kept) |->
        [role |-> kept[i].role, content |-> kept[i].content]]

\* sendMessage(messageText), lines 41-71: up to the call of fetch.
sendMessage(messageText) ==
  LET trimmedMessage == trim(messageText)
      userMessage == [role |-> "user", content |-> trimmedMessage]
      request == [message |-> trimmedMessage,
                  conversationHistory |->
                    ConversationHistory(app.rendered.messages)]
  IN /\ app.mounted
     /\ IF trimmedMessage = "" \/ IsLoading(app.rendered)
        THEN app' = Render(app)
        ELSE /\ Len(app.sends) < MaxSends
             /\ app' = Render(
                  [app EXCEPT !.state.error = NoError,
                              !.state.messages = Append(@, userMessage),
                              !.state.input = "",
                              !.state.isLoading = TRUE,
                              !.sends = Append(@, [pc |-> "fetch",
                                                   request |-> request])])
     /\ UNCHANGED << coordVars, readerVars, routerVars, libVars >>

\* handleSubmit, lines 101-104: the form's onSubmit.
HandleSubmit ==
  /\ app.mounted
  /\ sendMessage(app.rendered.input)

\* handleKeyDown, lines 106-111, for Enter without Shift; a disabled input
\* takes no key.
HandleKeyDown ==
  /\ app.mounted
  /\ ~app.rendered.isLoading
  /\ sendMessage(app.rendered.input)

\* handleQuickQuestion, lines 113-115; the buttons are there while there are
\* at most two messages, and a disabled button takes no click (206-218).
HandleQuickQuestion(question) ==
  /\ app.mounted
  /\ Len(app.rendered.messages) <= 2
  /\ ~app.rendered.isLoading
  /\ sendMessage(question)

\* sendMessage, lines 92-98: catch and finally.
Caught(a, i, message) ==
  [a EXCEPT !.state.error = message, !.state.isLoading = FALSE,
            !.sends[i].pc = "done"]

\* sendMessage, lines 62-77: fetch resolves; a response that is not ok is
\* thrown, otherwise response.json() is awaited.
FetchResolves(i, ok) ==
  /\ app.mounted
  /\ i \in 1..Len(app.sends)
  /\ app.sends[i].pc = "fetch"
  /\ app' = Render(IF ok THEN [app EXCEPT !.sends[i].pc = "json"]
                   ELSE Caught(app, i, "Server error"))
  /\ UNCHANGED << coordVars, readerVars, routerVars, libVars >>

\* sendMessage, lines 62, 92-98: fetch rejects.
FetchRejects(i) ==
  /\ app.mounted
  /\ i \in 1..Len(app.sends)
  /\ app.sends[i].pc = "fetch"
  /\ app' = Render(Caught(app, i, "Failed to fetch"))
  /\ UNCHANGED << coordVars, readerVars, routerVars, libVars >>

\* sendMessage, lines 77-98: response.json() resolves.
JsonResolves(i, data) ==
  /\ app.mounted
  /\ i \in 1..Len(app.sends)
  /\ app.sends[i].pc = "json"
  /\ app' = Render(
       IF data.success
       THEN [app EXCEPT !.state.messages =
                          Append(@, [role |-> "assistant",
                                     content |-> data.answer,
                                     source |-> data.source]),
                        !.state.isLoading = FALSE,
                        !.sends[i].pc = "done"]
       ELSE Caught(app, i, data.message))
  /\ UNCHANGED << coordVars, readerVars, routerVars, libVars >>

\* sendMessage, lines 77, 92-98: response.json() rejects.
JsonRejects(i) ==
  /\ app.mounted
  /\ i \in 1..Len(app.sends)
  /\ app.sends[i].pc = "json"
  /\ app' = Render(Caught(app, i, "Unexpected token"))
  /\ UNCHANGED << coordVars, readerVars, routerVars, libVars >>

\* Line 233: the error banner's dismiss button.
DismissError ==
  /\ app.mounted
  /\ app.rendered.error # NoError
  /\ app' = Render([app EXCEPT !.state.error = NoError])
  /\ UNCHANGED << coordVars, readerVars, routerVars, libVars >>

\* --------------------------------------------------- ragService, called
\* Texts chunkText is called with: every string of at most MaxTextLen
\* characters over a letter, a sentence end, a space and a line break.
MaxTextLen == 6
TextChars == {"a", ".", " ", "\n"}

RECURSIVE Texts(_)
Texts(n) ==
  IF n = 0 THEN {""}
  ELSE Texts(n - 1)
         \cup { t \o c : t \in { u \in Texts(n - 1) : Len(u) = n - 1 },
                         c \in TextChars }

\* maxChunkSize below, within and above the lengths of the texts; overlap
\* giving 0, 1 and 5 words (overlap 5 is what the tests pass).
ChunkSizes == {2, 4, DefaultMaxChunkSize}
Overlaps == {5, 10, DefaultOverlap}

\* Vectors cosineSimilarity is called with: integer components, of up to
\* MaxDimension dimensions.
MaxDimension == 2
Components == {-1, 0, 1, 2}

RECURSIVE Vectors(_)
Vectors(n) ==
  IF n = 0 THEN {<<>>}
  ELSE Vectors(n - 1)
         \cup { Append(v, x) : v \in { u \in Vectors(n - 1) : Len(u) = n - 1 },
                               x \in Components }

RagCalls ==
  { [fn |-> "chunkText", text |-> t, maxChunkSize |-> m, overlap |-> o] :
      t \in Texts(MaxTextLen), m \in ChunkSizes, o \in Overlaps }
  \cup { [fn |-> "cosineSimilarity", vecA |-> a, vecB |-> b] :
           a, b \in Vectors(MaxDimension) }

ChunkText ==
  /\ call.fn = "chunkText"
  /\ ~result.returned
  /\ result' = [returned |-> TRUE,
                value |-> chunkText(call.text, call.maxChunkSize, call.overlap)]
  /\ UNCHANGED << call, parser, coordVars, readerVars, routerVars, uiVars >>

CosineSimilarity ==
  /\ call.fn = "cosineSimilarity"
  /\ ~result.returned
  /\ result' = [returned |-> TRUE,
                value |-> cosineSimilarity(call.vecA, call.vecB)]
  /\ UNCHANGED << call, parser, coordVars, readerVars, routerVars, uiVars >>

\* ------------------------------------------------- agentService, called
\* Queries findBestMatch is called with: up to MaxPhrases phrases, joined by
\* a space.  The phrases name catalog questions in part or in whole, hold a
\* keyword inside a longer word ("camera", "evaluate"), or are gibberish.
MaxPhrases == 2

Phrases ==
  { "What is EVA?",
    "camera shop",
    "Please evaluate",
    "How does the agent work",
    "Tell me about Thoughtful AI's Agents.",
    "asdfghjkl qwerty",
    "benefits" }

RECURSIVE PhraseQueries(_)
PhraseQueries(n) ==
  IF n = 0 THEN {}
  ELSE IF n = 1 THEN Phrases
  ELSE PhraseQueries(n - 1)
         \cup { q \o " " \o p : q \in PhraseQueries(n - 1), p \in Phrases }

\* "How does the weather look" shares 3 of 10 words with a catalog question.
MatchQueries ==
  UserQueries \cup PhraseQueries(MaxPhrases)
    \cup {"", "hi", "How does the weather look", "How does the"}

\* Strings calculateSimilarity is called with, each with the word set the
\* normalisation leaves: lowercased, punctuation removed, split on
\* whitespace, words of one or two characters dropped.
SimilarityTexts ==
  << [text |-> "What is EVA?", words |-> {"what", "eva"}],
     [text |-> "  what   is   eva  ", words |-> {"what", "eva"}],
     [text |-> "apple banana cherry", words |-> {"apple", "banana", "cherry"}],
     [text |-> "dog elephant frog", words |-> {"dog", "elephant", "frog"}],
     [text |-> "Apple, apple; BANANA!", words |-> {"apple", "banana"}],
     [text |-> "e.v.a is it", words |-> {"eva"}],
     [text |-> "to be or, no?", words |-> {}],
     [text |-> "", words |-> {}],
     [text |-> "cherry_pie\tdog\nit's", words |-> {"cherry_pie", "dog", "its"}] >>

MatcherCalls ==
  { [fn |-> "findBestMatch", userQuery |-> q] : q \in MatchQueries }
  \cup { [fn |-> "calculateSimilarity", str1 |-> SimilarityTexts[i].text,
          str2 |-> SimilarityTexts[j].text, i |-> i, j |-> j] :
         i, j \in 1..Len(SimilarityTexts) }

Returned(value) == [returned |-> TRUE, value |-> value]

FindBestMatch ==
  /\ call.fn = "findBestMatch"
  /\ ~result.returned
  /\ result' = Returned(findBestMatch(call.userQuery))
  /\ UNCHANGED << call, parser, coordVars, readerVars, routerVars, uiVars >>

CalculateSimilarity ==
  /\ call.fn = "calculateSimilarity"
  /\ ~result.returned
  /\ result' = Returned(calculateSimilarity(call.str1, call.str2))
  /\ UNCHANGED << call, parser, coordVars, readerVars, routerVars, uiVars >>

\* ---------------------------------------------------------- specifications
Ingestion ==
  \/ \E r \in Runs, pages \in ScrapeOutcomes : ScrapeReturns(r, pages)
  \/ \E r \in Runs, v \in ChunkVectors : EmbeddingReturns(r, v)
  \/ \E r \in Runs : EmbeddingFails(r)
  \/ \E r \in Runs : DelayElapses(r)

\* The coordinator under concurrent callers, with status readers.
Next ==
  \/ \E c \in Callers, force \in BOOLEAN : InitializeKnowledgeBase(c, force)
  \/ Ingestion
  \/ \E c \in Callers : InitiatorResumes(c)
  \/ \E c \in Callers : AttachedResumes(c)
  \/ \E d \in Readers : GetKnowledgeBaseStatus(d)

Spec == Init /\ [][Next]_vars

\* The coordinator's own operations (status reads change none of its state).
CoordinatorNext ==
  \/ \E c \in Callers, force \in BOOLEAN : InitializeKnowledgeBase(c, force)
  \/ Ingestion
  \/ \E c \in Callers : InitiatorResumes(c)
  \/ \E c \in Callers : AttachedResumes(c)

\* The coordinator with the scheduling the runtime gives: every collaborator
\* call and timer of a run returns, and queued promise reactions are run.
Progress(r) ==
  \/ \E pages \in ScrapeOutcomes : ScrapeReturns(r, pages)
  \/ \E v \in ChunkVectors : EmbeddingReturns(r, v)
  \/ EmbeddingFails(r)
  \/ DelayElapses(r)

Reaction == \E c \in Callers : InitiatorResumes(c) \/ AttachedResumes(c)

LiveSpec ==
  /\ Init /\ [][CoordinatorNext]_vars
  /\ \A r \in Runs : WF_vars(Progress(r))
  /\ WF_vars(Reaction)

\* ingestContent called on its own, with status calls and searches.
IngestNext ==
  \/ \E pages \in IngestInputs : IngestContent(pages)
  \/ \E r \in Runs, v \in ChunkVectors : EmbeddingReturns(r, v)
  \/ \E r \in Runs : EmbeddingFails(r)
  \/ \E r \in Runs : DelayElapses(r)
  \/ \E d \in Readers : GetKnowledgeBaseStatus(d)
  \/ \E s \in Searchers, topK \in TopKs : SearchDocuments(s, topK)
  \/ \E s \in Searchers, v \in QueryVectors : SearchEmbeddingReturns(s, v)
  \/ \E s \in Searchers : SearchEmbeddingFails(s)

IngestSpec == Init /\ [][IngestNext]_vars

\* The router, while one operator initializes and refreshes the store.
Operator == 1

RouterNext ==
  \/ \E force \in BOOLEAN : InitializeKnowledgeBase(Operator, force)
  \/ Ingestion
  \/ InitiatorResumes(Operator)
  \/ \E cl \in Clients, userQuery \in UserQueries, history \in Histories :
       GetAgentResponse(cl, userQuery, history)
  \/ \E cl \in Clients, v \in QueryVectors : QueryEmbeddingReturns(cl, v)
  \/ \E cl \in Clients : QueryEmbeddingFails(cl)
  \/ \E cl \in Clients, answer \in CompletionTexts :
       RagCompletionReturns(cl, answer)
  \/ \E cl \in Clients : RagCompletionFails(cl)
  \/ \E cl \in Clients, answer \in CompletionTexts :
       FallbackCompletionReturns(cl, answer)
  \/ \E cl \in Clients : FallbackCompletionFails(cl)

RouterSpec == Init /\ [][RouterNext]_vars

\* Searches, while one operator initializes and refreshes the store (status
\* calls change no state a search or the coordinator reads).
SearchNext ==
  \/ \E force \in BOOLEAN : InitializeKnowledgeBase(Operator, force)
  \/ Ingestion
  \/ InitiatorResumes(Operator)
  \/ \E s \in Searchers, topK \in TopKs : SearchDocuments(s, topK)
  \/ \E s \in Searchers, v \in QueryVectors : SearchEmbeddingReturns(s, v)
  \/ \E s \in Searchers : SearchEmbeddingFails(s)

SearchSpec == Init /\ [][SearchNext]_vars

\* The chat endpoint, while one operator initializes and refreshes the store.
ChatNext ==
  \/ \E force \in BOOLEAN : InitializeKnowledgeBase(Operator, force)
  \/ Ingestion
  \/ InitiatorResumes(Operator)
  \/ \E cl \in Clients, body \in ChatBodies : PostChat(cl, body)
  \/ \E cl \in Clients, v \in QueryVectors : QueryEmbeddingReturns(cl, v)
  \/ \E cl \in Clients : QueryEmbeddingFails(cl)
  \/ \E cl \in Clients, answer \in CompletionTexts :
       RagCompletionReturns(cl, answer)
  \/ \E cl \in Clients : RagCompletionFails(cl)
  \/ \E cl \in Clients, answer \in CompletionTexts :
       FallbackCompletionReturns(cl, answer)
  \/ \E cl \in Clients : FallbackCompletionFails(cl)

ChatSpec == Init /\ [][ChatNext]_vars

\* The same, where the query-embedding request of a search is answered and
\* queued promise reactions are run; nothing is assumed of the ingestion.
QueryEmbeddingAnswered(s) ==
  \E v \in QueryVectors : SearchEmbeddingReturns(s, v)

LiveSearchSpec ==
  /\ SearchSpec
  /\ \A s \in Searchers : WF_vars(QueryEmbeddingAnswered(s))
  /\ WF_vars(Reaction)

\* extractTextFromHtml, called once; the document is its events.
ExtractInit ==
  /\ ServerInit
  /\ call = [fn |-> "extractTextFromHtml"]
  /\ result = NoResult
  /\ parser = StartParser
  /\ app = NoApp

ExtractNext ==
  \/ \E name \in TagNames : OnOpenTag(name)
  \/ \E text \in TextRuns : OnText(text)
  \/ OnCloseTag
  \/ ExtractReturns

ExtractSpec == ExtractInit /\ [][ExtractNext]_vars

\* parseContent, called once with one of the contents above.
ParseInit ==
  /\ ServerInit
  /\ call \in ParseCalls
  /\ result = NoResult
  /\ parser = NoParser
  /\ app = NoApp

ParseNext == ParseContent

ParseSpec == ParseInit /\ [][ParseNext]_vars

\* The chat UI, mounted once.
AppInit ==
  /\ ServerInit
  /\ call = NoCall
  /\ result = NoResult
  /\ parser = NoParser
  /\ app = MountedApp

AppNext ==
  \/ \E text \in Typed : OnChange(text)
  \/ HandleSubmit
  \/ HandleKeyDown
  \/ \E i \in 1..Len(SAMPLE_QUESTIONS) : HandleQuickQuestion(SAMPLE_QUESTIONS[i])
  \/ \E i \in 1..MaxSends, ok \in BOOLEAN : FetchResolves(i, ok)
  \/ \E i \in 1..MaxSends : FetchRejects(i)
  \/ \E i \in 1..MaxSends, data \in Replies : JsonResolves(i, data)
  \/ \E i \in 1..MaxSends : JsonRejects(i)
  \/ DismissError

AppSpec == AppInit /\ [][AppNext]_vars

\* chunkText and cosineSimilarity, each called once with one of the inputs
\* above.
RagCallsInit ==
  /\ ServerInit
  /\ call \in RagCalls
  /\ result = NoResult
  /\ parser = NoParser
  /\ app = NoApp

RagCallsNext ==
  \/ ChunkText
  \/ CosineSimilarity

RagCallsSpec == RagCallsInit /\ [][RagCallsNext]_vars

\* The matcher's functions, each called once with one of the inputs above.
MatcherInit ==
  /\ ServerInit
  /\ call \in MatcherCalls
  /\ result = NoResult
  /\ parser = NoParser
  /\ app = NoApp

MatcherNext ==
  \/ FindBestMatch
  \/ CalculateSimilarity

MatcherSpec == MatcherInit /\ [][MatcherNext]_vars


\* ------------------------------------------------------------ properties
ActivePcs == {"scraping", "embedding", "delay"}
SettledPcs == {"resolved", "rejected"}
ActiveRuns == { r \in Runs : runs[r].pc \in ActivePcs }
WaitingPcs == {"awaiting", "attached"}

\* C1: single flight.  At most one performInitialization run is active at a
\* time and it is the one the handle names; scrapeAllPages is called once
\* per run and ingestContent at most once per run; every caller that is
\* waiting waits for the latest run, so calls made during a run start none;
\* and all callers of one run settle with one and the same outcome.
C1_SingleFlight ==
  /\ Cardinality(ActiveRuns) <= 1
  /\ \A r \in ActiveRuns : initializationPromise = r
  /\ scrapeCalls = numRuns
  /\ ingestCalls <= scrapeCalls
  /\ \A c \in Callers : callers[c].pc \in WaitingPcs => callers[c].run = numRuns
  /\ \A c1, c2 \in Callers :
       (/\ callers[c1].pc = "done" /\ callers[c2].pc = "done"
        /\ callers[c1].run # 0 /\ callers[c1].run = callers[c2].run)
       => callers[c1].outcome = callers[c2].outcome

\* Two callers have settled with the outcome of the same run.
C1_Witness ==
  \E c1, c2 \in Callers :
    /\ c1 # c2
    /\ callers[c1].pc = "done" /\ callers[c2].pc = "done"
    /\ callers[c1].run # 0 /\ callers[c1].run = callers[c2].run
    /\ callers[c1].force /\ callers[c2].force

\* C2, as stated: while a run is active the live store is the snapshot that
\* was live before the run started.
C2_PriorSnapshotDuringRun ==
  \A r \in ActiveRuns : vectorStore = runs[r].priorStore

\* C2, amended: while a run is active the live store does not change and is
\* never a partial build: it is the prior snapshot for a run that was not
\* forced, and the cleared, uninitialized store for a forced run (refresh).
C2_StableSnapshotDuringRun ==
  \A r \in ActiveRuns :
    vectorStore = (IF runs[r].force THEN EmptyStore ELSE runs[r].priorStore)

\* A refresh of an initialized store is half-way through its build.
C2_Witness ==
  \E r \in ActiveRuns :
    /\ runs[r].force
    /\ runs[r].priorStore.initialized
    /\ Len(runs[r].priorStore.documents) > 0
    /\ Len(runs[r].documents) > 0

\* C9: initializeKnowledgeBase(false) on an initialized store returns the
\* current status at once and changes neither the store, the handle, the
\* recorded error, nor any run; nothing is fetched or ingested.
C9_NoopWhenInitialized ==
  [][\A c \in Callers :
       (/\ numCalls' = numCalls + 1
        /\ callers'[c] # callers[c]
        /\ ~callers'[c].force
        /\ vectorStore.initialized)
       => /\ callers'[c].pc = "done"
          /\ callers'[c].outcome =
               [settled |-> TRUE, ok |-> TRUE, fresh |-> FALSE,
                status |-> [initialized |-> TRUE,
                            documentCount |-> Len(vectorStore.documents),
                            lastUpdated |-> vectorStore.lastUpdated]]
          /\ UNCHANGED << vectorStore, initializationPromise,
                          initializationError, runs, numRuns, microtasks,
                          clock, scrapeCalls, ingestCalls >>]_vars

\* A caller was answered with the current status.
C9_Witness ==
  \E c \in Callers :
    /\ callers[c].pc = "done" /\ callers[c].run = 0 /\ ~callers[c].force
    /\ callers[c].outcome.status.initialized

\* C10: the handle names a run only while that run is active or its
\* initiator has yet to resume; a forced call made when no run is active
\* starts a new fetch; and every run the handle names is eventually settled
\* with the handle cleared.
HandleOnlyWhileInFlight ==
  \A r \in Runs :
    initializationPromise = r =>
      \/ r \in ActiveRuns
      \/ /\ runs[r].pc \in SettledPcs
         /\ \E i \in 1..Len(microtasks) :
              /\ microtasks[i].run = r
              /\ callers[microtasks[i].caller].pc = "awaiting"

ForcedCallStartsFresh ==
  \A c \in Callers :
    (/\ numCalls' = numCalls + 1
     /\ callers'[c] # callers[c]
     /\ callers'[c].force
     /\ ActiveRuns = {})
    => /\ scrapeCalls' = scrapeCalls + 1
       /\ callers'[c].pc = "awaiting"
       /\ initializationPromise' = callers'[c].run
       /\ callers'[c].run \notin {0} \cup { r \in Runs : runs[r].pc # "unused" }

C10_HandleCleared ==
  /\ []HandleOnlyWhileInFlight
  /\ [][ForcedCallStartsFresh]_vars
  /\ \A r \in Runs :
       (initializationPromise = r) ~>
         (initializationPromise = NoPromise /\ runs[r].pc \in SettledPcs)

\* A run has failed and a later forced call has started the next one.
C10_Witness ==
  \E r1, r2 \in Runs :
    /\ runs[r1].pc = "rejected"
    /\ r2 \in ActiveRuns
    /\ runs[r2].force
    /\ initializationPromise = r2


\* The catalog match of a query that has been asked, and whether it is
\* above the 0.6 of the router.
MatchOf(q) == BestMatch[q.userQuery]
AboveSixTenths(m) == m.found /\ 10 * m.confidence.num > 6 * m.confidence.den
Last(seq) == seq[Len(seq)]

\* C3: a query whose catalog match has confidence above 0.6 is answered with
\* that match, labelled predefined, with no embedding request and no
\* completion request, whatever the state of the store.
C3_PredefinedShortCircuit ==
  \A cl \in Clients :
    (queries[cl].pc # "idle" /\ AboveSixTenths(MatchOf(queries[cl])))
    => /\ queries[cl].pc = "done"
       /\ queries[cl].tiers = <<1>>
       /\ queries[cl].embeddingCalls = 0
       /\ queries[cl].completionCalls = <<>>
       /\ queries[cl].response =
            [answer |-> MatchOf(queries[cl]).answer,
             source |-> "predefined",
             confidence |-> MatchOf(queries[cl]).confidence,
             matchedQuestion |-> MatchOf(queries[cl]).matchedQuestion]

\* A predefined answer was given while the store holds documents.
C3_Witness ==
  \E cl \in Clients :
    /\ queries[cl].pc = "done"
    /\ queries[cl].response.source = "predefined"
    /\ vectorStore.initialized /\ Len(vectorStore.documents) > 0

\* C4: when retrieval or the completion call of tier 2 raises, the error is
\* not propagated: tier 3 runs, the caller gets the fallback answer, and the
\* query fails only if the completion call of tier 3 raises too.
C4_RagErrorFallsBack ==
  \A cl \in Clients :
    /\ (queries[cl].pc # "idle" /\ queries[cl].raised # <<>>
          /\ queries[cl].raised[1] = 2)
       => /\ queries[cl].tiers = <<1, 2, 3>>
          /\ queries[cl].pc \in {"completion3", "done", "failed"}
          /\ Len(queries[cl].completionCalls) >= 1
          /\ Last(queries[cl].completionCalls)[1].content = StaticPrompt
          /\ queries[cl].pc = "done" =>
               /\ queries[cl].response.source = "openai"
               /\ queries[cl].response.answer \in CompletionTexts
               /\ queries[cl].response.confidence = NoConfidence
               /\ queries[cl].response.matchedQuestion = NoQuestion
    /\ queries[cl].pc = "failed" => Last(queries[cl].raised) = 3

\* Tier 2 raised and the caller has the fallback answer.
C4_Witness ==
  \E cl \in Clients :
    /\ queries[cl].pc = "done"
    /\ queries[cl].raised = <<2>>
    /\ queries[cl].response.source = "openai"

\* C5: the tiers are visited in increasing order, each at most once; a tier
\* runs only if no earlier tier returned; and the response is the one of the
\* last tier visited.
C5_StrictWaterfall ==
  \A cl \in Clients :
    queries[cl].pc # "idle" =>
      /\ queries[cl].tiers \in { <<1>>, <<1, 2>>, <<1, 3>>, <<1, 2, 3>> }
      /\ Len(queries[cl].tiers) > 1 => ~AboveSixTenths(MatchOf(queries[cl]))
      /\ queries[cl].tiers = <<1, 2, 3>> =>
           (queries[cl].raised # <<>> /\ queries[cl].raised[1] = 2)
      /\ queries[cl].tiers = <<1, 3>> => ~queries[cl].initialized
      /\ queries[cl].answeredBy # 0 => queries[cl].pc = "done"
      /\ queries[cl].pc = "done" =>
           /\ queries[cl].answeredBy = Last(queries[cl].tiers)
           /\ queries[cl].answeredBy = 1 =>
                queries[cl].response.source = "predefined"
           /\ queries[cl].answeredBy = 2 =>
                /\ DOMAIN queries[cl].response =
                     {"answer", "source", "confidence", "matchedQuestion",
                      "ragSources"}
                /\ queries[cl].response.ragSources =
                     queries[cl].ragContext.sources
           /\ queries[cl].answeredBy = 3 =>
                /\ DOMAIN queries[cl].response =
                     {"answer", "source", "confidence", "matchedQuestion"}
                /\ queries[cl].response.source = "openai"

\* A query went through all three tiers and was answered by the third.
C5_Witness ==
  \E cl \in Clients :
    /\ queries[cl].pc = "done"
    /\ queries[cl].tiers = <<1, 2, 3>>
    /\ queries[cl].answeredBy = 3

\* C6, as stated: a query for which findBestMatch returns a match (score at
\* least 0.3) is answered from the catalog, with no embedding request and no
\* completion request.
C6_MatchedNeverReachesOpenAI ==
  \A cl \in Clients :
    (queries[cl].pc # "idle" /\ MatchOf(queries[cl]).found)
    => /\ queries[cl].embeddingCalls = 0
       /\ queries[cl].completionCalls = <<>>
       /\ queries[cl].pc = "done"
       /\ queries[cl].response.source = "predefined"

\* C7: a response of tier 2 is labelled rag, with the highest relevance
\* score of the search results as its confidence, exactly when the search
\* returned a result; with no result it is labelled openai (the fallback
\* label) and its confidence is null.
C7_RagLabel ==
  \A cl \in Clients :
    (queries[cl].pc = "done" /\ queries[cl].answeredBy = 2)
    => LET sources == queries[cl].ragContext.sources
           response == queries[cl].response
       IN IF Len(sources) > 0
          THEN /\ response.source = "rag"
               /\ response.confidence # NoConfidence
               /\ \E i \in 1..Len(sources) :
                    ScoreEq(response.confidence, sources[i].relevanceScore)
               /\ \A i \in 1..Len(sources) :
                    ~ScoreGT(sources[i].relevanceScore, response.confidence)
          ELSE /\ response.source = "openai"
               /\ response.confidence = NoConfidence

\* Tier 2 answered from two results of different scores, the lower one last.
C7_Witness ==
  \E cl \in Clients :
    /\ queries[cl].pc = "done" /\ queries[cl].answeredBy = 2
    /\ Len(queries[cl].ragContext.sources) = 2
    /\ ScoreGT(queries[cl].ragContext.sources[1].relevanceScore,
               queries[cl].ragContext.sources[2].relevanceScore)

\* C8: with no catalog match above 0.6 and the store uninitialized at the
\* call, no embedding is requested, exactly one completion request is made,
\* its system prompt is the static prompt alone, and the response is
\* labelled openai with confidence null and matchedQuestion null.
C8_UninitializedFallback ==
  \A cl \in Clients :
    (/\ queries[cl].pc # "idle"
     /\ ~queries[cl].initialized
     /\ ~AboveSixTenths(MatchOf(queries[cl])))
    => /\ queries[cl].embeddingCalls = 0
       /\ Len(queries[cl].completionCalls) = 1
       /\ queries[cl].completionCalls[1] =
            << [role |-> "system", content |-> StaticPrompt] >>
              \o queries[cl].conversationHistory
              \o << [role |-> "user", content |-> queries[cl].userQuery] >>
       /\ queries[cl].pc \in {"completion3", "done", "failed"}
       /\ queries[cl].pc = "done" =>
            /\ queries[cl].response.source = "openai"
            /\ queries[cl].response.confidence = NoConfidence
            /\ queries[cl].response.matchedQuestion = NoQuestion

\* A query asked before the store was initialized has its fallback answer.
C8_Witness ==
  \E cl \in Clients :
    /\ queries[cl].pc = "done"
    /\ ~queries[cl].initialized
    /\ queries[cl].answeredBy = 3
    /\ MatchOf(queries[cl]).found


\* ------------------------------------------------ coordinator, continued
\* The attempt that completed last (attempts are serial), or 0.
LastCompleted ==
  IF numRuns = 0 THEN 0
  ELSE IF runs[numRuns].pc \in SettledPcs THEN numRuns
  ELSE numRuns - 1

FailedLast == LastCompleted # 0 /\ runs[LastCompleted].pc = "rejected"

\* C11: between jobs the recorded error is non-null exactly when the attempt
\* that completed last has failed: it is set by a failure, kept through
\* status calls and further failures, and reset only by a success; every
\* status call reports it.
C11_ErrorRetained ==
  /\ [](TaskTurn => (initializationError # NoError <=> FailedLast))
  /\ [][\A d \in Readers :
          readers'[d] # readers[d] =>
            readers'[d].status.error =
              (IF FailedLast THEN NoContentError ELSE NoError)]_vars
  /\ [][(initializationError # NoError /\ initializationError' = NoError)
          => (LastCompleted # 0 /\ runs[LastCompleted].pc = "resolved")]_vars

\* Two attempts in a row have failed and a status call has reported the error.
C11_Witness ==
  /\ TaskTurn
  /\ numRuns = 2 /\ runs[1].pc = "rejected" /\ runs[2].pc = "rejected"
  /\ \E d \in Readers :
       readers[d].asked /\ readers[d].status.error = NoContentError

\* The runs that have gone past the fetch and called ingestContent.
Ingesting == { r \in Runs : runs[r].pc \in {"embedding", "delay", "resolved"} }

\* C12: when scrapeAllPages resolves with no page the attempt rejects with
\* the no-content error, ingestContent is not called in it, and the store is
\* left as it was, uninitialized; the callers of the attempt get that error.
C12_EmptyFetchFails ==
  /\ [][\A r \in Runs :
          ScrapeReturns(r, <<>>) =>
            /\ runs'[r].pc = "rejected"
            /\ ingestCalls' = ingestCalls
            /\ vectorStore' = vectorStore
            /\ ~vectorStore'.initialized
            /\ microtasks' # <<>>
            /\ microtasks'[Len(microtasks')].outcome =
                 [settled |-> TRUE, ok |-> FALSE,
                  message |-> "No content was scraped from thoughtful.ai"]]_vars
  /\ [](ingestCalls = Cardinality(Ingesting))
  /\ [][\A r \in Runs : runs[r].pc = "rejected" => runs'[r] = runs[r]]_vars
  /\ [](\A c \in Callers :
          (/\ callers[c].pc = "done" /\ callers[c].run # 0
           /\ runs[callers[c].run].pc = "rejected")
          => (~callers[c].outcome.ok
              /\ callers[c].outcome.message = NoContentError))

\* An attempt has failed on an empty fetch and its caller has the error.
C12_Witness ==
  \E c \in Callers :
    /\ callers[c].pc = "done" /\ callers[c].run # 0
    /\ runs[callers[c].run].pc = "rejected"
    /\ ~callers[c].outcome.ok
    /\ ingestCalls = 0 /\ ~vectorStore.initialized


\* C13: while ingestContent builds, the live store is not touched; when the
\* loop ends the store is replaced in one step by the complete build, with
\* initialized true and a new lastUpdated; and the store changes in no other
\* step than that one and the clear at the start of a forced run.
C13_AtomicReplace ==
  /\ [][\A r \in Runs :
          (runs[r].pc \in ActivePcs /\ runs'[r].pc \in {"embedding", "delay"})
          => vectorStore' = vectorStore]_vars
  /\ [][\A r \in Runs :
          (runs[r].pc \in ActivePcs /\ runs'[r].pc = "resolved")
          => /\ vectorStore' =
                  [documents |-> runs[r].documents,
                   embeddings |-> runs[r].embeddings,
                   initialized |-> TRUE,
                   lastUpdated |-> clock]
             /\ Len(vectorStore'.documents) = Len(vectorStore'.embeddings)
             /\ vectorStore'.lastUpdated > vectorStore.lastUpdated
             /\ vectorStore'.lastUpdated > runs[r].priorStore.lastUpdated]_vars
  /\ [][vectorStore' # vectorStore =>
          \/ \E r \in Runs :
               runs[r].pc \in ActivePcs /\ runs'[r].pc = "resolved"
          \/ numRuns' = numRuns + 1 /\ vectorStore' = EmptyStore]_vars

\* A second ingestion has replaced the store with a build of two documents.
C13_Witness ==
  /\ vectorStore.initialized
  /\ Len(vectorStore.documents) = 2
  /\ vectorStore.lastUpdated = 2
  /\ runs[1].pc = "resolved" /\ runs[2].pc = "resolved"

\* C14: a failed embedding request drops that chunk and nothing else: the
\* build and totalChunks are as before, the loop goes on to the next chunk
\* or, after the last one, completes with the build and a totalChunks equal
\* to the number of chunks embedded; a successful request adds exactly its
\* chunk and counts it.
C14_EmbeddingFailureSkipsChunk ==
  /\ [][\A r \in Runs :
          (runs[r].pc = "embedding" /\ runs'[r].pc # "delay"
             /\ [runs'[r] EXCEPT !.waiters = <<>>]
                  # [runs[r] EXCEPT !.waiters = <<>>])
          => IF runs[r].next < Len(runs[r].jobs)
             THEN /\ runs'[r] = [runs[r] EXCEPT !.next = @ + 1]
                  /\ vectorStore' = vectorStore
             ELSE /\ runs'[r].pc = "resolved"
                  /\ vectorStore'.initialized
                  /\ vectorStore'.documents = runs[r].documents
                  /\ vectorStore'.embeddings = runs[r].embeddings
                  /\ microtasks' # <<>>
                  /\ microtasks'[Len(microtasks')].outcome.ok
                  /\ microtasks'[Len(microtasks')].outcome.ingestion.totalChunks
                       = runs[r].totalChunks]_vars
  /\ [][\A r \in Runs :
          (runs[r].pc = "embedding" /\ runs'[r].pc = "delay")
          => /\ runs'[r].totalChunks = runs[r].totalChunks + 1
             /\ Len(runs'[r].documents) = Len(runs[r].documents) + 1
             /\ SubSeq(runs'[r].documents, 1, Len(runs[r].documents))
                  = runs[r].documents
             /\ runs'[r].documents[Len(runs'[r].documents)].text
                  = runs[r].jobs[runs[r].next].text]_vars
  /\ [](\A r \in Runs :
          runs[r].pc \in {"embedding", "delay"}
          => /\ runs[r].totalChunks = Len(runs[r].documents)
             /\ runs[r].totalChunks = Len(runs[r].embeddings)
             /\ runs[r].next \in 1..Len(runs[r].jobs))

\* The chunk of the first page failed, the second page was ingested all the
\* same and the run completed with one chunk.
C14_Witness ==
  /\ vectorStore.initialized
  /\ Len(vectorStore.documents) = 1
  /\ vectorStore.documents[1].metadata.pageName = "Home"
  /\ \E c \in Callers :
       /\ callers[c].pc = "done" /\ callers[c].run # 0
       /\ callers[c].outcome.ok
       /\ callers[c].outcome.scraping.pagesScraped = 2
       /\ callers[c].outcome.ingestion.totalChunks = 1

\* C17: a status call changes nothing of the store or the coordinator; its
\* isInitializing is true exactly when a run is in flight, its error is the
\* recorded error, and the rest is the status of the live store.
C17_StatusIsPure ==
  [][\A d \in Readers :
       (numStatusCalls' = numStatusCalls + 1 /\ readers'[d].asked)
       => /\ UNCHANGED << coordVars, routerVars >>
          /\ readers'[d].status.isInitializing = (ActiveRuns # {})
          /\ readers'[d].status.error = initializationError
          /\ readers'[d].status.initialized = vectorStore.initialized
          /\ readers'[d].status.documentCount = Len(vectorStore.documents)
          /\ readers'[d].status.lastUpdated = vectorStore.lastUpdated]_vars

\* A status call was answered while a run was in flight.
C17_Witness ==
  \E d \in Readers :
    /\ readers[d].asked
    /\ readers[d].status.isInitializing
    /\ ActiveRuns # {}


\* ------------------------------------------------------------- the readers
\* C15: a searchDocuments call that finds the store uninitialized or without
\* documents is answered in the same job with the empty list: it does not
\* raise and sends no embedding request.
C15_EmptySearchOnEmptyStore ==
  [][\A s \in Searchers :
       (/\ numSearches' = numSearches + 1
        /\ searches'[s].pc # "idle"
        /\ (~vectorStore.initialized \/ Len(vectorStore.documents) = 0))
       => /\ searches'[s].pc = "done"
          /\ searches'[s].results = <<>>
          /\ searches'[s].embeddingCalls = 0
          /\ UNCHANGED coordVars]_vars

\* A search was answered on a store that is initialized and holds nothing
\* (every embedding of the ingestion had failed).
C15_Witness ==
  \E s \in Searchers :
    /\ searches[s].pc = "done"
    /\ searches[s].embeddingCalls = 0
    /\ searches[s].results = <<>>
    /\ searches[s].called.initialized
    /\ Len(searches[s].called.documents) = 0

\* The score of document i of a store for a query vector, the documents
\* ranked ahead of it (higher score, or equal score and earlier), and the
\* documents a search with limit topK selects.
ScoreOf(store, q, i) == cosineSimilarity(q, store.embeddings[i])

RankedAhead(store, q, i) ==
  { j \in 1..Len(store.documents) :
      \/ ScoreGT(ScoreOf(store, q, j), ScoreOf(store, q, i))
      \/ ScoreEq(ScoreOf(store, q, j), ScoreOf(store, q, i)) /\ j < i }

ExceedsThreeTenths(score) ==
  score.dot > 0 /\ 100 * score.dot * score.dot > 9 * score.norm2

Selected(store, q, topK) ==
  { i \in 1..Len(store.documents) :
      /\ Cardinality(RankedAhead(store, q, i)) < topK
      /\ ExceedsThreeTenths(ScoreOf(store, q, i)) }

\* C16: a search that has scored an initialized, non-empty store returns at
\* most topK results, in non-increasing order of score, each with a score
\* above 0.3, and they are exactly the documents among the topK best whose
\* score is above 0.3.
C16_SearchResults ==
  \A s \in Searchers :
    (/\ searches[s].pc = "done"
     /\ searches[s].embeddingCalls = 1
     /\ searches[s].searched.initialized
     /\ Len(searches[s].searched.documents) > 0)
    => LET results == searches[s].results
           store == searches[s].searched
           q == searches[s].queryEmbedding
           topK == searches[s].topK
       IN /\ Len(results) <= topK
          /\ \A k \in 1..Len(results) : ExceedsThreeTenths(results[k].score)
          /\ \A k \in 1..(Len(results) - 1) :
               ~ScoreGT(results[k + 1].score, results[k].score)
          /\ Len(results) = Cardinality(Selected(store, q, topK))
          /\ \A i \in Selected(store, q, topK) :
               \E k \in 1..Len(results) :
                 /\ results[k].id = store.documents[i].id
                 /\ results[k].text = store.documents[i].text
                 /\ results[k].score = ScoreOf(store, q, i)

\* A search with limit 1 returned the better of two documents that are both
\* above the threshold.
C16_Witness ==
  \E s \in Searchers :
    /\ searches[s].pc = "done"
    /\ searches[s].topK = 1
    /\ Len(searches[s].results) = 1
    /\ Len(searches[s].searched.documents) = 2
    /\ \A i \in 1..2 :
         ExceedsThreeTenths(ScoreOf(searches[s].searched,
                                    searches[s].queryEmbedding, i))

\* C18: reads do not wait for the ingestion.  A status call can be made and
\* is answered in its own job whatever the run is doing; the answer to a
\* search's embedding request is taken whatever the run is doing; and a
\* search whose embedding request is answered completes, even when the
\* ingestion never takes another step.
C18_ReadsDoNotWait ==
  /\ [](\A d \in Readers :
          (TaskTurn /\ numStatusCalls < MaxStatusCalls)
          => ENABLED GetKnowledgeBaseStatus(d))
  /\ [](\A s \in Searchers :
          (TaskTurn /\ searches[s].pc = "embedding")
          => \A v \in QueryVectors : ENABLED SearchEmbeddingReturns(s, v))
  /\ [](\A s \in Searchers :
          (TaskTurn /\ numSearches < MaxSearches
             /\ searches[s].pc \in {"idle", "done", "failed"})
          => \A topK \in TopKs : ENABLED SearchDocuments(s, topK))
  /\ \A s \in Searchers :
       (searches[s].pc = "embedding") ~> (searches[s].pc \in {"done", "failed"})

\* A search has completed on the store a forced run had cleared, and that
\* run is still in flight.
C18_Witness ==
  \E s \in Searchers :
    /\ searches[s].pc = "done"
    /\ searches[s].embeddingCalls = 1
    /\ searches[s].searched = EmptyStore
    /\ ActiveRuns # {}


\* ------------------------------------------------------- the chat endpoint
\* C19, as stated: a request whose message is missing, not a string, empty
\* or whitespace-only is answered 400 'Invalid input' without a call of
\* getAgentResponse, whatever the state of the knowledge base.
C19_InvalidInputIs400 ==
  \A cl \in Clients :
    (requests[cl].pc # "idle" /\ requests[cl].body.message \in InvalidMessages)
    => /\ requests[cl].pc = "answered"
       /\ requests[cl].status = 400
       /\ requests[cl].error = "Invalid input"

\* C19, amended: such a request never reaches getAgentResponse, whatever the
\* state of the knowledge base; it is answered 400 'Invalid input' when the
\* store is initialized and 503 'Service Unavailable' when it is not.
C19_InvalidInputRejected ==
  [][\A cl \in Clients :
       (/\ numRequests' = numRequests + 1
        /\ requests'[cl].pc # "idle"
        /\ requests'[cl].body.message \in InvalidMessages)
       => /\ UNCHANGED << queries, numQueries, coordVars >>
          /\ requests'[cl].pc = "answered"
          /\ IF vectorStore.initialized
             THEN /\ requests'[cl].status = 400
                  /\ requests'[cl].error = "Invalid input"
             ELSE /\ requests'[cl].status = 503
                  /\ requests'[cl].error = "Service Unavailable"]_vars

\* A whitespace-only message was answered 400 by a ready knowledge base.
C19_Witness ==
  \E cl \in Clients :
    /\ requests[cl].pc = "answered"
    /\ requests[cl].body.message = [type |-> "string", value |-> "   "]
    /\ requests[cl].status = 400
    /\ numQueries = 0
    /\ vectorStore.initialized

\* C20, as stated: a valid chat request is answered 503 exactly when it
\* arrives before the first successful ingestion.
C20_NotReadyOnlyBeforeFirstSuccess ==
  \A cl \in Clients :
    (requests[cl].pc # "idle" /\ requests[cl].body.message \in ValidMessages)
    => (requests[cl].status = 503 <=> ~requests[cl].succeededBefore)

\* C20, amended: a valid chat request is answered 503 exactly when the store
\* is not initialized at its arrival, and the store is initialized exactly
\* when the run started last has succeeded: 503 is the answer before the
\* first success, during every later run and after a failed one.
C20_NotReadyWhileUninitialized ==
  /\ [][\A cl \in Clients :
          (/\ numRequests' = numRequests + 1
           /\ requests'[cl].pc # "idle"
           /\ requests'[cl].body.message \in ValidMessages)
          => IF numRuns > 0 /\ runs[numRuns].pc = "resolved"
             THEN /\ requests'[cl].pc = "pending"
                  /\ requests'[cl].status # 503
                  /\ numQueries' = numQueries + 1
             ELSE /\ requests'[cl].pc = "answered"
                  /\ requests'[cl].status = 503
                  /\ UNCHANGED << queries, numQueries >>]_vars
  /\ [](vectorStore.initialized <=>
          (numRuns > 0 /\ runs[numRuns].pc = "resolved"))
  /\ [](\A cl \in Clients : ChatStatus(cl) = 503 => requests[cl].status = 503)

\* A valid request was answered 503 after an ingestion had succeeded: a
\* refresh was under way or had failed.
C20_Witness ==
  \E cl \in Clients :
    /\ requests[cl].pc = "answered"
    /\ requests[cl].body.message \in ValidMessages
    /\ requests[cl].status = 503
    /\ requests[cl].succeededBefore


\* -------------------------------------------------------------- the matcher
\* The confidence findBestMatch ends with, stated without its loops: the
\* largest similarity to a catalog question, raised to 0.5 when a keyword of
\* the query names an entry the query has a word in common with.
Catalog == 1..Len(predefinedResponses)
SimilarityTo(userQuery, i) ==
  calculateSimilarity(userQuery, predefinedResponses[i].question)

MaxSimilarity(userQuery) ==
  LET best == CHOOSE i \in Catalog :
                \A j \in Catalog :
                  FracGE(SimilarityTo(userQuery, i), SimilarityTo(userQuery, j))
  IN SimilarityTo(userQuery, best)

KeywordsIn(userQuery) ==
  { k \in 1..Len(keywords) : includes(toLowerCase(userQuery), keywords[k][1]) }

Boosted(userQuery) ==
  \E k \in KeywordsIn(userQuery) :
    SimilarityTo(userQuery, keywords[k][2] + 1).num > 0

FinalConfidence(userQuery) ==
  IF Boosted(userQuery)
  THEN FracMax(MaxSimilarity(userQuery), Frac(1, 2))
  ELSE MaxSimilarity(userQuery)

MatchReturned == call.fn = "findBestMatch" /\ result.returned

\* C21: findBestMatch returns a match exactly when the best confidence after
\* both passes is at least 0.3, and null otherwise; a returned match has that
\* confidence, which lies in [0.3, 1], and its answer and matchedQuestion are
\* those of one catalog entry.
C21_MatchIffAboveThreshold ==
  MatchReturned =>
    LET m == result.value
        final == FinalConfidence(call.userQuery)
    IN /\ m.found <=> 10 * final.num >= 3 * final.den
       /\ ~m.found => m = NoMatch
       /\ m.found =>
            /\ FracEq(m.confidence, final)
            /\ 10 * m.confidence.num >= 3 * m.confidence.den
            /\ m.confidence.num <= m.confidence.den
            /\ \E i \in Catalog :
                 /\ m.answer = predefinedResponses[i].answer
                 /\ m.matchedQuestion = predefinedResponses[i].question

\* Both outcomes occur: gibberish gives null, and a query that a keyword
\* boosts is returned with confidence 0.5.
C21_Witness ==
  /\ MatchReturned
  /\ call.userQuery = "What is EVA?"
  /\ result.value.found
  /\ FracEq(result.value.confidence, Frac(1, 2))


\* C22, as documented: whenever the lowercased query contains a keyword of
\* the table as a substring, findBestMatch returns a match with confidence
\* at least 0.5.
C22_KeywordBoostsToHalf ==
  (MatchReturned /\ KeywordsIn(call.userQuery) # {})
  => /\ result.value.found
     /\ 2 * result.value.confidence.num >= result.value.confidence.den

\* Pass 2 of findBestMatch, entry by entry: the running best before entry i.
BeforeScan(userQuery, i) ==
  ScanPass(KeywordPass(NoBest, userQuery, keywords), userQuery,
           SubSeq(predefinedResponses, 1, i - 1))

\* C30: in pass 2 an entry replaces the current best exactly when its
\* unboosted similarity is strictly greater than the current best score, be
\* that best a boosted result of pass 1 or not, and the new best carries the
\* unboosted similarity; whenever the largest raw similarity over the catalog
\* exceeds 0.5, the returned confidence is that similarity.
C30_FullScanOverrides ==
  MatchReturned =>
    LET q == call.userQuery
    IN /\ \A i \in Catalog :
            LET before == BeforeScan(q, i)
                after == BeforeScan(q, i + 1)
                sim == SimilarityTo(q, i)
            IN IF sim.num * before.highestScore.den
                    > before.highestScore.num * sim.den
               THEN /\ after.bestMatch.found
                    /\ after.bestMatch.matchedQuestion
                         = predefinedResponses[i].question
                    /\ after.bestMatch.answer = predefinedResponses[i].answer
                    /\ after.bestMatch.confidence = sim
                    /\ after.highestScore = sim
               ELSE after = before
       /\ 2 * MaxSimilarity(q).num > MaxSimilarity(q).den
            => /\ result.value.found
               /\ FracEq(result.value.confidence, MaxSimilarity(q))

\* Pass 2 replaced a best that pass 1 had boosted to 0.5: the query holds
\* the keyword "benefits", and is closer to the payment posting question.
C30_Witness ==
  /\ MatchReturned
  /\ call.userQuery = "benefits How does the agent work"
  /\ \E i \in Catalog :
       LET before == BeforeScan(call.userQuery, i)
       IN /\ before.bestMatch.found
          /\ before.highestScore = Frac(1, 2)
          /\ FracGT(before.highestScore,
                    calculateSimilarity(call.userQuery,
                                        before.bestMatch.matchedQuestion))
          /\ FracGT(SimilarityTo(call.userQuery, i), before.highestScore)
          /\ result.value.matchedQuestion = predefinedResponses[i].question

\* C23: calculateSimilarity(a, b) is |A \cap B| / |A \cup B| for the word
\* sets A and B that normalisation leaves (lowercased, punctuation removed,
\* words of one or two characters dropped); it is 0 when a set is empty or the
\* sets are disjoint, the same for (a, b) and (b, a), and above 0.9 for a = b
\* when a has a word longer than two characters.
C23_JaccardIndex ==
  (call.fn = "calculateSimilarity" /\ result.returned) =>
    LET A == SimilarityTexts[call.i].words
        B == SimilarityTexts[call.j].words
        sim == result.value
    IN /\ sim.den > 0
       /\ IF A = {} \/ B = {}
          THEN sim.num = 0
          ELSE sim.num * Cardinality(A \cup B)
                 = Cardinality(A \cap B) * sim.den
       /\ A \cap B = {} => sim.num = 0
       /\ sim = calculateSimilarity(call.str2, call.str1)
       /\ (call.str1 = call.str2 /\ A # {}) => 10 * sim.num > 9 * sim.den

\* Two texts that differ in case, punctuation and short words, and share one
\* of three words, were compared.
C23_Witness ==
  /\ call.fn = "calculateSimilarity" /\ result.returned
  /\ call.str1 = "Apple, apple; BANANA!"
  /\ call.str2 = "apple banana cherry"
  /\ result.value = Frac(2, 3)


\* -------------------------------------------------------------- the chunker
ChunksReturned == call.fn = "chunkText" /\ result.returned

\* str is a contiguous part of chunk.
Within(str, chunk) ==
  \E i \in 1..(Len(chunk) - Len(str) + 1) :
    SubSeq(chunk, i, i + Len(str) - 1) = str

\* C24, as stated: each sentence of the input, as split on sentence-terminal
\* punctuation followed by whitespace, appears verbatim as a contiguous part
\* of at least one chunk returned by chunkText.
C24_EverySentenceVerbatim ==
  ChunksReturned =>
    \A k \in 1..Len(SplitSentences(call.text)) :
      \E c \in 1..Len(result.value) :
        Within(SplitSentences(call.text)[k], result.value[c])

\* C24, amended: each sentence of the input that is not blank appears, with
\* the whitespace at its two ends removed, verbatim as a contiguous part of
\* at least one chunk.
C24_EverySentenceTrimmed ==
  ChunksReturned =>
    \A k \in 1..Len(SplitSentences(call.text)) :
      LET sentence == trim(SplitSentences(call.text)[k])
      IN sentence # "" =>
           \E c \in 1..Len(result.value) : Within(sentence, result.value[c])

\* A text of two sentences was cut into more than one chunk.
C24_Witness ==
  /\ ChunksReturned
  /\ call.text = "a. a a"
  /\ call.maxChunkSize = 4
  /\ Len(result.value) > 1


\* The sentences of a text, joined by single spaces.
RECURSIVE JoinSentences(_)
JoinSentences(sentences) ==
  IF Len(sentences) = 1 THEN sentences[1]
  ELSE sentences[1] \o " " \o JoinSentences(Tail(sentences))

\* C25, as stated: an input shorter than maxSize that is not blank gives
\* exactly one chunk, the trimmed input, whatever whitespace separates its
\* sentences; a blank input gives no chunk.
C25_ShortInputIsOneChunk ==
  (ChunksReturned /\ Len(call.text) < call.maxChunkSize) =>
    IF trim(call.text) = "" THEN result.value = <<>>
    ELSE result.value = << trim(call.text) >>

\* C25, amended: an input shorter than maxSize that is not blank gives
\* exactly one chunk: the trimmed input in which every run of whitespace that
\* follows sentence-terminal punctuation is one space; a blank input gives no
\* chunk.
C25_ShortInputIsOneJoinedChunk ==
  (ChunksReturned /\ Len(call.text) < call.maxChunkSize) =>
    IF trim(call.text) = "" THEN result.value = <<>>
    ELSE /\ result.value = << trim(JoinSentences(SplitSentences(call.text))) >>
         /\ (\A i \in SeparatorStarts(call.text) :
               Char(call.text, i) = " " /\ RunEnd(call.text, i) = i)
              => result.value = << trim(call.text) >>

\* A short input whose sentences a line break separates came back as one
\* chunk with a space in its place.
C25_Witness ==
  /\ ChunksReturned
  /\ call.text = " a.\na."
  /\ call.maxChunkSize = DefaultMaxChunkSize
  /\ result.value = << "a. a." >>

EndsWith(str, suffix) ==
  /\ Len(suffix) <= Len(str)
  /\ SubSeq(str, Len(str) - Len(suffix) + 1, Len(str)) = suffix

LongSentences ==
  { k \in 1..Len(SplitSentences(call.text)) :
      /\ Len(SplitSentences(call.text)[k]) > call.maxChunkSize
      /\ trim(SplitSentences(call.text)[k]) # "" }

\* C26, as stated: a sentence longer than maxSize is emitted whole as a chunk
\* of its own, which contains no other sentence, wherever it occurs in the
\* input.
C26_LongSentenceIsOwnChunk ==
  ChunksReturned =>
    \A k \in LongSentences :
      \E c \in 1..Len(result.value) :
        result.value[c] = trim(SplitSentences(call.text)[k])

\* C26, amended: a sentence longer than maxSize that is not blank is never
\* truncated and never dropped, wherever it occurs: a chunk ends with it, so
\* that no later sentence shares the chunk.  When it is the first sentence
\* the chunk is the sentence alone; otherwise the chunk begins with words
\* carried over from the end of the chunk flushed before it.
C26_LongSentenceEndsAChunk ==
  ChunksReturned =>
    \A k \in LongSentences :
      LET sentence == trim(SplitSentences(call.text)[k])
      IN \E c \in 1..Len(result.value) :
           LET chunk == result.value[c]
               carried == SubSeq(chunk, 1, Len(chunk) - Len(sentence))
           IN /\ EndsWith(chunk, sentence)
              /\ k = 1 => chunk = sentence
              /\ k > 1 => /\ c > 1
                          /\ EndsWith(carried, " ")
                          /\ EndsWith(result.value[c - 1], trim(carried))

\* A long second sentence was emitted after the words of the first.
C26_Witness ==
  /\ ChunksReturned
  /\ call.text = "a. aaa"
  /\ call.maxChunkSize = 2
  /\ call.overlap = 10
  /\ result.value = << "a.", "a. aaa" >>


\* ------------------------------------------------------- cosine similarity
AllZero(vec) == \A i \in 1..Len(vec) : vec[i] = 0

\* C29: cosineSimilarity(a, b) raises an error when the two vectors differ
\* in length; for vectors of equal length it returns exactly 0 when either
\* is all-zero, and the same value for (a, b) and (b, a).
C29_CosineSimilarity ==
  (call.fn = "cosineSimilarity" /\ result.returned) =>
    IF Len(call.vecA) # Len(call.vecB)
    THEN result.value.threw
    ELSE /\ ~result.value.threw
         /\ (AllZero(call.vecA) \/ AllZero(call.vecB))
              => result.value.dot = 0
         /\ result.value = cosineSimilarity(call.vecB, call.vecA)

\* A vector was compared with an all-zero vector of its length, and the
\* answer was 0.
C29_Witness ==
  /\ call.fn = "cosineSimilarity" /\ result.returned
  /\ call.vecA = <<1, 2>>
  /\ call.vecB = <<0, 0>>
  /\ result.value = Score(0, 1)


\* ------------------------------------------------------------ the extractor
\* C27, as stated: extractTextFromHtml never outputs text that lies inside a
\* noise element, at any nesting depth and for every sequence of open, text
\* and close events, also when noise elements are nested in noise elements.
C27_NoiseTextDiscarded ==
  /\ parser.parsing => parser.leaked = {}
  /\ (call.fn = "extractTextFromHtml" /\ result.returned)
       => \A part \in parser.leaked : ~Within(part, result.value)

\* C28, as stated: a text run inside a content-bearing element and outside
\* every noise element is in the output if its trimmed length is at least 3
\* (in a heading h1-h4) or 10 (in another content element) and is not if it is
\* shorter, whatever child or sibling elements open or close around it.
C28_TextKeptByLength ==
  (call.fn = "extractTextFromHtml" /\ result.returned) =>
    /\ \A run \in parser.owed : Within(run, result.value)
    /\ \A run \in parser.short \ parser.owed : ~Within(run, result.value)

\* ------------------------------------------------------ the chunker's overlap
\* The whitespace-delimited words of a string.
WordsOf(str) ==
  SelectSeq(SplitOnWhitespace(str), LAMBDA word : word # "")

\* The last count elements of a sequence (all of them if there are fewer).
LastOf(seq, count) ==
  IF count >= Len(seq) THEN seq
  ELSE SubSeq(seq, Len(seq) - count + 1, Len(seq))

\* The state of chunkText's loop after the first k sentences of the call.
AfterSentences(k) ==
  ChunkLoop(NoChunks, SubSeq(SplitSentences(call.text), 1, k),
            call.maxChunkSize, call.overlap)

\* Sentence k of the call made chunkText push its buffer.
FlushedAt(k) ==
  Len(AfterSentences(k).chunks) = Len(AfterSentences(k - 1).chunks) + 1

\* C31, as stated: each time chunkText flushes a buffer, the words of the
\* new buffer are exactly the last floor(overlap / 10) whitespace-delimited
\* words of the flushed buffer (none when overlap is below 10), followed by
\* the sentence that triggered the flush.
C31_FlushSeedsOverlapWords ==
  ChunksReturned =>
    \A k \in 1..Len(SplitSentences(call.text)) :
      FlushedAt(k) =>
        WordsOf(AfterSentences(k).currentChunk)
          = LastOf(WordsOf(AfterSentences(k - 1).currentChunk),
                   call.overlap \div 10)
              \o WordsOf(SplitSentences(call.text)[k])

\* ----------------------------------------------------------- parseContent
ContentParsed == call.fn = "parseContent" /\ result.returned

\* C32, as stated: parseContent splits the text on blank-line boundaries and
\* keeps, in their order, exactly the pieces whose length is at least 20
\* characters.
C32_KeepsPiecesOfTwenty ==
  ContentParsed =>
    result.value.content
      = SelectSeq(SplitOnBlankLine(call.content),
                  LAMBDA piece : Len(piece) >= 20)

\* ------------------------------------------------------------ the chat UI
\* C33: while a request is in flight isLoading is true and none of the send
\* paths sends a further request, so that at most one request of an App is
\* outstanding; and the step in which a request settles, with an answer or
\* with an error, leaves isLoading false.
C33_OneRequestAtATime ==
  /\ [](app.mounted =>
          /\ Cardinality(InFlight(app)) <= 1
          /\ InFlight(app) # {} => app.state.isLoading)
  /\ [][app.mounted =>
          /\ app.state.isLoading => Len(app'.sends) = Len(app.sends)
          /\ \A i \in InFlight(app) :
               app'.sends[i].pc = "done" => ~app'.state.isLoading]_vars

\* A second request was sent after the first had failed, and is in flight.
C33_Witness ==
  /\ app.mounted
  /\ Len(app.sends) = 2
  /\ app.sends[1].pc = "done"
  /\ app.sends[2].pc = "fetch"
  /\ app.state.error = NoError
  /\ Len(app.state.messages) = 3
  /\ app.state.isLoading

\* ------------------------------------------------------ the store's pairing
\* Run r, in this step, got the embedding it had asked for.
EmbeddingObtained(r) == runs[r].pc = "embedding" /\ runs'[r].pc = "delay"

\* C34: in every state the live documents and embeddings have the same
\* length and the ids of the documents are pairwise distinct; and
\* embeddings[i] is the vector obtained for documents[i].text: a build gets a
\* document and an embedding together, in the step in which the embedding
\* asked for that document's text is obtained, and changes in no other step;
\* the live store changes only to the empty store or to the documents and
\* embeddings of the build that completes.
C34_DocumentsAndEmbeddingsPaired ==
  /\ [](/\ Len(vectorStore.documents) = Len(vectorStore.embeddings)
        /\ \A i, j \in 1..Len(vectorStore.documents) :
             i # j => vectorStore.documents[i].id # vectorStore.documents[j].id)
  /\ [][/\ \A r \in Runs :
             (runs[r].pc \in ActivePcs /\ runs'[r].pc \in ActivePcs) =>
               IF EmbeddingObtained(r)
               THEN /\ \E v \in ChunkVectors :
                         runs'[r].embeddings = Append(runs[r].embeddings, v)
                    /\ Len(runs'[r].documents) = Len(runs[r].documents) + 1
                    /\ SubSeq(runs'[r].documents, 1, Len(runs[r].documents))
                         = runs[r].documents
                    /\ runs'[r].documents[Len(runs'[r].documents)].text
                         = runs[r].jobs[runs[r].next].text
               ELSE /\ runs'[r].documents = runs[r].documents
                    /\ runs'[r].embeddings = runs[r].embeddings
        /\ vectorStore' # vectorStore =>
             \/ vectorStore' = EmptyStore
             \/ \E r \in Runs :
                  /\ runs[r].pc \in ActivePcs
                  /\ runs'[r].pc = "resolved"
                  /\ vectorStore'.documents = runs[r].documents
                  /\ vectorStore'.embeddings = runs[r].embeddings]_vars

\* The store was refreshed, and holds two documents with different vectors,
\* while a search waits for its query embedding.
C34_Witness ==
  /\ numRuns = 2
  /\ Len(vectorStore.documents) = 2
  /\ vectorStore.embeddings = << <<1, 0>>, <<0, 1>> >>
  /\ \E s \in Searchers : searches[s].pc = "embedding"

\* ----------------------------------------------- a search across a refresh
\* The query embedding of search s arrives in this step.
QueryEmbeddingArrives(s) ==
  /\ searches[s].pc = "embedding"
  /\ searches'[s].pc # "embedding"
  /\ searches'[s].queryEmbedding # <<>>

\* C35: a search whose query embedding arrives after the store was replaced
\* or cleared scores the documents and the embeddings of one snapshot, the
\* one that is live when the embedding arrives: each result is a document of
\* that snapshot with the similarity of the query to that document's own
\* embedding; and when that snapshot is the cleared store the search returns
\* the empty list and does not raise.
C35_SearchScoresOneSnapshot ==
  [][\A s \in Searchers :
       QueryEmbeddingArrives(s) =>
         /\ searches'[s].searched = vectorStore
         /\ searches'[s].pc = "done" =>
              \A k \in 1..Len(searches'[s].results) :
                \E i \in 1..Len(vectorStore.documents) :
                  /\ searches'[s].results[k].id = vectorStore.documents[i].id
                  /\ searches'[s].results[k].text
                       = vectorStore.documents[i].text
                  /\ searches'[s].results[k].score
                       = cosineSimilarity(searches'[s].queryEmbedding,
                                          vectorStore.embeddings[i])
         /\ vectorStore = EmptyStore =>
              /\ searches'[s].pc = "done"
              /\ searches'[s].results = <<>>]_vars

\* A search called on a store of two documents completed, with no result,
\* after a refresh had cleared the store.
C35_Witness ==
  \E s \in Searchers :
    /\ searches[s].pc = "done"
    /\ Len(searches[s].called.documents) = 2
    /\ searches[s].queryEmbedding # <<>>
    /\ searches[s].searched = EmptyStore
    /\ searches[s].results = <<>>

\* ---------------------------------------------------------- a failed refresh
\* C36: when a refresh of an initialized store fails, the store is left
\* uninitialized, with no document and lastUpdated null: the snapshot that
\* was live before the refresh is not put back.
C36_FailedRefreshLeavesEmptyStore ==
  [][\A r \in Runs :
       (/\ runs[r].pc \in ActivePcs
        /\ runs'[r].pc = "rejected"
        /\ runs[r].force
        /\ runs[r].priorStore.initialized) =>
         /\ ~vectorStore'.initialized
         /\ vectorStore'.documents = <<>>
         /\ vectorStore'.lastUpdated = NoTime
         /\ vectorStore' # runs[r].priorStore]_vars

\* The first run had filled the store; the refresh found no page and failed,
\* and the store is empty.
C36_Witness ==
  /\ numRuns = 2
  /\ runs[1].pc = "resolved"
  /\ runs[2].pc = "rejected"
  /\ \E c \in Callers :
       /\ callers[c].outcome.settled
       /\ callers[c].outcome.ok
       /\ callers[c].outcome.fresh
       /\ callers[c].outcome.ingestion.totalChunks > 0
  /\ vectorStore = EmptyStore

\* ------------------------------------------------- the error and the store
\* C37: with the store written through the coordinator only, a recorded
\* error implies that the store is uninitialized, in every state in which a
\* job can start (the promise reactions of a finished run have run); no
\* status call reports initialized = true together with a non-null error.
C37_ErrorImpliesUninitialized ==
  /\ (TaskTurn /\ initializationError # NoError) => ~vectorStore.initialized
  /\ \A d \in Readers :
       readers[d].asked =>
         ~(readers[d].status.initialized /\ readers[d].status.error # NoError)

\* A refresh of a filled store has failed, and a status call has reported
\* the error with initialized = false.
C37_Witness ==
  /\ TaskTurn
  /\ numRuns = 2
  /\ runs[1].pc = "resolved"
  /\ runs[2].pc = "rejected"
  /\ initializationError = NoContentError
  /\ \E d \in Readers :
       /\ readers[d].asked
       /\ readers[d].status.error = NoContentError
       /\ ~readers[d].status.initialized

\* C38: whenever ingestContent completes, the store it leaves is initialized,
\* holds exactly the documents the build produced, and the knowledge base is
\* ready, also when the build produced no document (content too short, every
\* embedding failed, no page at all); on an initialized store without
\* documents a status call reports initialized with documentCount 0 and a
\* search returns the empty list at once, without asking for an embedding
\* (a search already waiting for its embedding returns the empty list when
\* the embedding arrives).
IngestCompletes(r) ==
  /\ runs[r].pc # "resolved"
  /\ runs'[r].pc = "resolved"

ReadyAndEmpty(store) ==
  /\ store.initialized
  /\ Len(store.documents) = 0

C38_IngestAlwaysInitializes ==
  [][ /\ \A r \in Runs :
           IngestCompletes(r) =>
             /\ vectorStore'.initialized
             /\ isKnowledgeBaseReady(vectorStore')
             /\ Len(vectorStore'.documents) \in
                  { Len(runs[r].documents), Len(runs[r].documents) + 1 }
             /\ SubSeq(vectorStore'.documents, 1, Len(runs[r].documents))
                  = runs[r].documents
             /\ Len(vectorStore'.documents) = Len(vectorStore'.embeddings)
             /\ Len(vectorStore'.documents) <= Len(ChunkJobs(runs[r].pages))
      /\ \A d \in DOMAIN readers :
           (readers'[d] # readers[d] /\ ReadyAndEmpty(vectorStore)) =>
             /\ readers'[d].status.initialized
             /\ readers'[d].status.documentCount = 0
      /\ \A s \in DOMAIN searches :
           (searches'[s] # searches[s] /\ ReadyAndEmpty(vectorStore)) =>
             IF searches[s].pc = "embedding"
             THEN searches'[s].pc = "done" => searches'[s].results = <<>>
             ELSE /\ searches'[s].pc = "done"
                  /\ searches'[s].results = <<>>
                  /\ searches'[s].embeddingCalls = 0
    ]_vars

\* A build without documents has completed: the store is initialized and
\* empty, a status call has reported it so, and a search made on it has
\* returned the empty list.
C38_Witness ==
  /\ ingestCalls > 0
  /\ ReadyAndEmpty(vectorStore)
  /\ \E d \in DOMAIN readers :
       /\ readers[d].asked
       /\ readers[d].status.initialized
       /\ readers[d].status.documentCount = 0
  /\ \E s \in DOMAIN searches :
       /\ searches[s].pc = "done"
       /\ searches[s].called = vectorStore
       /\ searches[s].embeddingCalls = 0
       /\ searches[s].results = <<>>

\* C39: for one query the router sends at most one embedding request and at
\* most two completion requests; a second completion request is sent only
\* after tier 2 raised (in retrieval or in its own completion request), and
\* it is the request of tier 3; a query that tier 2 answered made exactly
\* one completion request.
Tier2Raised(q) == \E i \in 1..Len(q.raised) : q.raised[i] = 2

C39_CollaboratorCallsBounded ==
  \A cl \in Clients :
    LET q == queries[cl]
    IN /\ q.embeddingCalls <= 1
       /\ Len(q.completionCalls) <= 2
       /\ Len(q.completionCalls) = 2 =>
            /\ Tier2Raised(q)
            /\ q.tiers = <<1, 2, 3>>
            /\ q.completionCalls[2] =
                 CompletionRequest(q.userQuery, q.conversationHistory,
                                   NoContext)
       /\ (Tier2Raised(q) /\ q.pc \in {"completion3", "done", "failed"}) =>
            Len(q.completionCalls) \in {1, 2}
       /\ q.answeredBy = 2 =>
            /\ q.raised = <<>>
            /\ Len(q.completionCalls) = 1
       /\ q.answeredBy = 1 =>
            /\ q.embeddingCalls = 0
            /\ q.completionCalls = <<>>

\* A query whose retrieval succeeded and whose tier 2 completion request
\* raised has been answered by tier 3 after a second completion request.
C39_Witness ==
  \E cl \in Clients :
    LET q == queries[cl]
    IN /\ q.pc = "done"
       /\ q.answeredBy = 3
       /\ q.embeddingCalls = 1
       /\ Len(q.completionCalls) = 2
       /\ q.raised = <<2>>

====
